---- MODULE Spec2Model ----
(***************************************************************************)
(* Row Pattern Recognition engine: pattern compiler (src/parser.js) and    *)
(* NFA executor with emitter (src/nfa.js).                                  *)
(*                                                                          *)
(* Element indices, variable ids, depths and row numbers are 0-based as in  *)
(* the source; TLA+ sequences are 1-based, so element i of the compiled     *)
(* pattern is elements[i + 1] and counts[d] of the source is counts[d + 1]. *)
(***************************************************************************)
EXTENDS Integers, Sequences, FiniteSets, TLC

\* JavaScript Infinity (the max of *, + and {n,}): larger than any count
Infinity == 1000000

\* Longest row stream fed to one executor
MaxRows == 4

(***************************************************************************)
(* Generic helpers                                                          *)
(***************************************************************************)
Range(s) == { s[i] : i \in 1..Len(s) }

RECURSIVE ConcatAll(_)
ConcatAll(ss) == IF ss = <<>> THEN <<>> ELSE Head(ss) \o ConcatAll(Tail(ss))

MaxOf(S) == CHOOSE x \in S : \A y \in S : y <= x
MinOf(S) == CHOOSE x \in S : \A y \in S : x <= y

\* Array.prototype.indexOf: 0-based index of the first occurrence, or -1
indexOf(arr, x) ==
    IF \E i \in 1..Len(arr) : arr[i] = x
    THEN MinOf({ i \in 1..Len(arr) : arr[i] = x }) - 1
    ELSE -1

(***************************************************************************)
(* AST nodes, in the shape parseSequence / parseItem build them             *)
(***************************************************************************)
VarNode(name, min, max, reluctant) ==
    [type |-> "VAR", name |-> name, min |-> min, max |-> max, reluctant |-> reluctant]
GroupNode(content, min, max, reluctant) ==
    [type |-> "GROUP", content |-> content, min |-> min, max |-> max, reluctant |-> reluctant]
SeqNode(items) == [type |-> "SEQ", items |-> items]
AltNode(alternatives) == [type |-> "ALT", alternatives |-> alternatives]

(***************************************************************************)
(* parser.js: PatternElement, collectVariables, flattenAST, compileAST      *)
(***************************************************************************)
PatternElement(varId) ==
    [varId |-> varId, depth |-> 0, min |-> 1, max |-> 1,
     next |-> -1, jump |-> -1, reluctant |-> FALSE]

isVar(elem) == elem.varId >= 0
isAltStart(elem) == elem.varId = -1
isGroupEnd(elem) == elem.varId = -2
isFinish(elem) == elem.varId = -3

RECURSIVE collectVariables(_, _)
RECURSIVE collectVariablesList(_, _)
collectVariables(node, varList) ==
    CASE node.type = "VAR" ->
            IF indexOf(varList, node.name) >= 0 THEN varList
            ELSE Append(varList, node.name)
      [] node.type = "SEQ" -> collectVariablesList(node.items, varList)
      [] node.type = "GROUP" -> collectVariables(node.content, varList)
      [] node.type = "ALT" -> collectVariablesList(node.alternatives, varList)
collectVariablesList(nodes, varList) ==
    IF nodes = <<>> THEN varList
    ELSE collectVariablesList(Tail(nodes), collectVariables(Head(nodes), varList))

RECURSIVE flattenAST(_, _, _, _)
RECURSIVE flattenItems(_, _, _, _)
RECURSIVE flattenAlternatives(_, _, _, _)
\* elements after the node has been flattened behind `elements`
flattenAST(node, elements, depth, variables) ==
    CASE node.type = "SEQ" -> flattenItems(node.items, elements, depth, variables)
      [] node.type = "VAR" ->
            Append(elements,
                   [PatternElement(indexOf(variables, node.name)) EXCEPT
                        !.min = node.min, !.max = node.max,
                        !.depth = depth, !.reluctant = node.reluctant])
      [] node.type = "GROUP" ->
            LET groupStartIdx == Len(elements)
                inner == flattenAST(node.content, elements, depth + 1, variables)
            IN IF node.min # 1 \/ node.max # 1
               THEN Append(inner,
                           [PatternElement(-2) EXCEPT
                                !.depth = depth, !.min = node.min, !.max = node.max,
                                !.jump = groupStartIdx, !.reluctant = node.reluctant])
               ELSE inner
      [] node.type = "ALT" ->
            LET altStartPos == Len(elements) + 1
                withStart == Append(elements, [PatternElement(-1) EXCEPT !.depth = depth])
                acc == flattenAlternatives(node.alternatives,
                          [elements |-> withStart, altBranchStarts |-> <<>>,
                           altEndPositions |-> <<>>], depth, variables)
                starts == acc.altBranchStarts
                ends == acc.altEndPositions
                afterAltIdx == Len(acc.elements)
                jumpOf(pos) ==
                    IF \E i \in 1..(Len(starts) - 1) : starts[i] + 1 = pos
                    THEN LET i == CHOOSE i \in 1..(Len(starts) - 1) : starts[i] + 1 = pos
                         IN starts[i + 1]
                    ELSE acc.elements[pos].jump
                nextOf(pos) ==
                    IF pos = altStartPos /\ Len(starts) > 0 THEN starts[1]
                    ELSE IF pos - 1 \in Range(ends) /\ acc.elements[pos].next = -1
                         THEN afterAltIdx
                         ELSE acc.elements[pos].next
            IN [pos \in 1..Len(acc.elements) |->
                    [acc.elements[pos] EXCEPT !.jump = jumpOf(pos), !.next = nextOf(pos)]]
flattenItems(items, elements, depth, variables) ==
    IF items = <<>> THEN elements
    ELSE flattenItems(Tail(items),
                      flattenAST(Head(items), elements, depth, variables),
                      depth, variables)
flattenAlternatives(alts, acc, depth, variables) ==
    IF alts = <<>> THEN acc
    ELSE LET altBranchStart == Len(acc.elements)
             flat == flattenAST(Head(alts), acc.elements, depth + 1, variables)
         IN flattenAlternatives(Tail(alts),
                [elements |-> flat,
                 altBranchStarts |-> Append(acc.altBranchStarts, altBranchStart),
                 altEndPositions |->
                    IF Len(flat) > altBranchStart
                    THEN Append(acc.altEndPositions, Len(flat) - 1)
                    ELSE acc.altEndPositions],
                depth, variables)

\* a compileAST without the loop that sets the next pointers still at -1
compileAST_NoLink(ast) ==
    LET variables == collectVariables(ast, <<>>)
        elements == Append(flattenAST(ast, <<>>, 0, variables), PatternElement(-3))
    IN [elements |-> elements,
        variables |-> variables,
        maxDepth |-> MaxOf({ elements[i].depth : i \in 1..Len(elements) }),
        reluctant |-> \E i \in 1..Len(elements) : elements[i].reluctant]

compileAST(ast) ==
    LET variables == collectVariables(ast, <<>>)
        flat == flattenAST(ast, <<>>, 0, variables)
        finIdx == Len(flat)
        linked == [pos \in 1..Len(flat) |->
                      IF flat[pos].next = -1
                      THEN [flat[pos] EXCEPT
                                !.next = IF pos - 1 < Len(flat) - 1 THEN pos ELSE finIdx]
                      ELSE flat[pos]]
        elements == Append(linked, PatternElement(-3))
    IN [elements |-> elements,
        variables |-> variables,
        maxDepth |-> MaxOf({ elements[i].depth : i \in 1..Len(elements) }),
        reluctant |-> \E i \in 1..Len(elements) : elements[i].reluctant]

(***************************************************************************)
(* Program state                                                            *)
(***************************************************************************)
VARIABLES
    ast,                \* the AST parsePattern built for the pattern text
    pattern,            \* NFAExecutor.pattern (compiled Pattern)
    skipMode,           \* NFAExecutor.skipMode
    outputMode,         \* NFAExecutor.outputMode
    contexts,           \* NFAExecutor.contexts
    currentRow,         \* NFAExecutor.currentRow
    completedContexts,  \* NFAExecutor.completedContexts (emit queue)
    emittedResults,     \* NFAExecutor.emittedResults
    lastEmittedEnd,     \* NFAExecutor.lastEmittedEnd
    ctxIdCounter,       \* the module-level counter _ctxId
    history,            \* NFAExecutor.history (one record per processed row)
    second,             \* a second NFAExecutor of the same process: <<>> or <<its fields>>
    alone,              \* an executor of its own process that is fed the same rows
    previous,           \* the history of the executor before it was replaced or reset
    driverRows,         \* the row index the driver meant with each processRow call
    seqRun,             \* unnamed/part_000: _pathSeq, live states with {seq, path}, last fork
    rowNames,           \* the trueVarNames argument of each call, for rows with foreign names
    parseRun            \* parser.js: a pattern text and what the parser functions made of it

vars == <<ast, pattern, skipMode, outputMode, contexts, currentRow, completedContexts,
          emittedResults, lastEmittedEnd, ctxIdCounter, history, second, alone, previous, driverRows,
          seqRun, rowNames, parseRun>>

\* the variables that the row-processing specifications leave alone
auxVars == <<seqRun, rowNames, parseRun>>

SKIP_PAST_LAST == "PAST_LAST"
SKIP_TO_NEXT == "TO_NEXT"
OUTPUT_ONE_ROW == "ONE_ROW"
OUTPUT_ALL_ROWS == "ALL_ROWS"

\* pattern.elements[i] of the source (0-based)
Elem(i) == pattern.elements[i + 1]
\* `!elem`: the index is outside pattern.elements
NoElem(i) == i < 0 \/ i >= Len(pattern.elements)

(***************************************************************************)
(* nfa.js: Summary                                                          *)
(***************************************************************************)
\* Array.prototype.join(',') on an array of integers
RECURSIVE join(_)
join(arr) ==
    IF arr = <<>> THEN ""
    ELSE IF Len(arr) = 1 THEN ToString(arr[1])
    ELSE ToString(arr[1]) \o "," \o join(Tail(arr))

Summary(paths) == [aggregates |-> <<>>, paths |-> paths]

SummaryWithMatch(sum, varId) ==
    [sum EXCEPT !.paths = [i \in 1..Len(sum.paths) |-> Append(sum.paths[i], varId)]]

\* this.paths after this.mergePaths(other)
RECURSIVE mergePathsLoop(_, _)
mergePathsLoop(paths, others) ==
    IF others = <<>> THEN paths
    ELSE mergePathsLoop(
            IF \E i \in 1..Len(paths) : join(paths[i]) = join(Head(others))
            THEN paths ELSE Append(paths, Head(others)),
            Tail(others))
mergePaths(sum, other) == [sum EXCEPT !.paths = mergePathsLoop(sum.paths, other.paths)]

aggregatesEqual(sum, other) == sum.aggregates = other.aggregates

(***************************************************************************)
(* nfa.js: MatchState                                                       *)
(***************************************************************************)
MatchState(elementIndex, counts, summaries) ==
    [elementIndex |-> elementIndex, counts |-> counts, summaries |-> summaries]

\* new MatchState(0, initCounts): one summary holding the empty path
InitialState ==
    MatchState(0, [d \in 1..(pattern.maxDepth + 1) |-> 0], <<Summary(<< <<>> >>)>>)

withMatch(state, varId) ==
    [state EXCEPT !.summaries =
        [i \in 1..Len(state.summaries) |-> SummaryWithMatch(state.summaries[i], varId)]]

\* this.summaries after this.mergeSummaries(other)
RECURSIVE mergeSummariesLoop(_, _)
mergeSummariesLoop(summaries, others) ==
    IF others = <<>> THEN summaries
    ELSE LET otherSum == Head(others)
             hits == { j \in 1..Len(summaries) : aggregatesEqual(summaries[j], otherSum) }
         IN mergeSummariesLoop(
                IF hits # {}
                THEN [summaries EXCEPT ![MinOf(hits)] = mergePaths(@, otherSum)]
                ELSE Append(summaries, otherSum),
                Tail(others))
mergeSummaries(state, other) ==
    [state EXCEPT !.summaries = mergeSummariesLoop(state.summaries, other.summaries)]

getMatchedPaths(state) ==
    ConcatAll([i \in 1..Len(state.summaries) |-> state.summaries[i].paths])

hash(state) == ToString(state.elementIndex) \o ":" \o join(state.counts)

\* counts[depth] = value (depth is 0-based)
SetCount(state, depth, value) == [state EXCEPT !.counts[depth + 1] = value]
CountAt(state, depth) == state.counts[depth + 1]

HashIndex_Never(list, h) == 0

\* index (1-based) of the entry of `list` with this hash, or 0
HashIndex(list, h) ==
    IF \E i \in 1..Len(list) : hash(list[i]) = h
    THEN MinOf({ i \in 1..Len(list) : hash(list[i]) = h })
    ELSE 0

\* the `hash in index` / mergeSummaries / push idiom of consumeInput and mergeStates
AddOrMerge(list, state) ==
    LET i == HashIndex(list, hash(state))
    IN IF i > 0 THEN [list EXCEPT ![i] = mergeSummaries(@, state)]
       ELSE Append(list, state)

RECURSIVE AddOrMergeAll(_, _)
AddOrMergeAll(list, states) ==
    IF states = <<>> THEN list
    ELSE AddOrMergeAll(AddOrMerge(list, Head(states)), Tail(states))

mergeStates(states) == AddOrMergeAll(<<>>, states)

(***************************************************************************)
(* nfa.js: NFAExecutor helpers                                              *)
(***************************************************************************)
\* variant of toVarIds without the test idx >= 0
toVarIds_NoTest(varNames) == { indexOf(pattern.variables, name) : name \in varNames }

\* toVarIds: the set of ids of the names that are pattern variables
toVarIds(varNames) ==
    { indexOf(pattern.variables, name) :
        name \in { n \in varNames : indexOf(pattern.variables, n) >= 0 } }

hasVarId(varIds, varId) == varId \in varIds
varIdsSize(varIds) == Cardinality(varIds)

\* findGroupEnd: the first #END met following next from the #ALT; 0-based index or -1
RECURSIVE findGroupEndFrom(_, _)
findGroupEndFrom(idx, fuel) ==
    IF NoElem(idx) \/ fuel = 0 THEN -1
    ELSE IF isGroupEnd(Elem(idx)) THEN idx
    ELSE findGroupEndFrom(Elem(idx).next, fuel - 1)
findGroupEnd(altElem) == findGroupEndFrom(altElem.next, Len(pattern.elements))

resetInnerCounts(state, depth) ==
    [state EXCEPT !.counts = [d \in 1..Len(state.counts) |->
                                 IF d - 1 >= depth + 1 THEN 0 ELSE state.counts[d]]]

(***************************************************************************)
(* nfa.js: transitions (consumption of the current row)                     *)
(***************************************************************************)
RepeatState(state, elem, count) ==
    [resetInnerCounts(SetCount(state, elem.depth, count), elem.depth)
        EXCEPT !.elementIndex = elem.jump]
ExitState(state, elem) ==
    [SetCount(state, elem.depth, 0) EXCEPT !.elementIndex = elem.next]

\* a transitionGroupEnd that takes the greedy order for every group
transitionGroupEnd_GreedyOrder(state, elem) ==
    LET count == CountAt(state, elem.depth) + 1
    IN IF count < elem.min THEN <<RepeatState(state, elem, count)>>
       ELSE IF count >= elem.max THEN <<ExitState(state, elem)>>
       ELSE <<RepeatState(state, elem, count), ExitState(state, elem)>>

transitionGroupEnd(state, elem) ==
    LET count == CountAt(state, elem.depth) + 1
    IN IF count < elem.min THEN <<RepeatState(state, elem, count)>>
       ELSE IF count >= elem.max THEN <<ExitState(state, elem)>>
       ELSE IF elem.reluctant
            THEN <<ExitState(state, elem), RepeatState(state, elem, count)>>
            ELSE <<RepeatState(state, elem, count), ExitState(state, elem)>>

RECURSIVE transition(_, _)

\* a transitionVar that takes the greedy order for every element
transitionVar_GreedyOrder(state, elem, trueVars) ==
    LET count == CountAt(state, elem.depth)
    IN IF hasVarId(trueVars, elem.varId)
       THEN LET newCount == count + 1
                newState == SetCount(withMatch(state, elem.varId), elem.depth, newCount)
                advanceState == ExitState(newState, elem)
            IN IF newCount >= elem.max THEN <<advanceState>>
               ELSE IF newCount >= elem.min THEN <<newState, advanceState>>
               ELSE <<newState>>
       ELSE IF count >= elem.min
            THEN transition(ExitState(state, elem), trueVars)
            ELSE <<>>

transitionVar(state, elem, trueVars) ==
    LET count == CountAt(state, elem.depth)
    IN IF hasVarId(trueVars, elem.varId)
       THEN LET newCount == count + 1
                newState == SetCount(withMatch(state, elem.varId), elem.depth, newCount)
                advanceState == ExitState(newState, elem)
            IN IF newCount >= elem.max THEN <<advanceState>>
               ELSE IF newCount >= elem.min /\ elem.reluctant
                    THEN <<advanceState, newState>>
                    ELSE IF newCount >= elem.min /\ ~elem.reluctant
                         THEN <<newState, advanceState>>
                         ELSE <<newState>>
       ELSE IF count >= elem.min
            THEN transition(ExitState(state, elem), trueVars)
            ELSE <<>>

\* the while loop of transitionAlt over the arms, from arm start altIdx
RECURSIVE transitionAltArms(_, _, _)
transitionAltArms(state, altIdx, trueVars) ==
    IF NoElem(altIdx) THEN <<>>
    ELSE transition([state EXCEPT !.elementIndex = altIdx], trueVars)
         \o transitionAltArms(state, Elem(altIdx).jump, trueVars)

\* the group-exit part of transitionAlt, taken when no arm matched
transitionAltExit(state, elem, trueVars) ==
    LET endIdx == findGroupEnd(elem)
    IN IF endIdx = -1 THEN <<>>
       ELSE LET endElem == Elem(endIdx)
                exitState == ExitState(state, endElem)
                subResults2 == transition(exitState, trueVars)
            IN IF CountAt(state, endElem.depth) >= endElem.min
               THEN IF Len(subResults2) > 0 THEN subResults2 ELSE <<exitState>>
               ELSE <<>>

transitionAlt(state, elem, trueVars) ==
    LET armResults == transitionAltArms(state, elem.next, trueVars)
    IN IF Len(armResults) > 0 THEN armResults
       ELSE transitionAltExit(state, elem, trueVars)

transition(state, trueVars) ==
    IF state.elementIndex = -1 THEN <<>>
    ELSE IF NoElem(state.elementIndex)
         THEN <<MatchState(-1, state.counts, state.summaries)>>
         ELSE LET elem == Elem(state.elementIndex)
              IN CASE isVar(elem) -> transitionVar(state, elem, trueVars)
                   [] isAltStart(elem) -> transitionAlt(state, elem, trueVars)
                   [] isGroupEnd(elem) -> transitionGroupEnd(state, elem)
                   [] isFinish(elem) -> <<MatchState(-1, state.counts, state.summaries)>>
                   [] OTHER -> <<>>

(***************************************************************************)
(* nfa.js: expansion to wait positions (epsilon moves)                      *)
(*                                                                          *)
(* `seen` holds the state objects themselves.  A result entry is either the *)
(* very object stored in seen (ref = its position; a later merge into that  *)
(* object is visible in the result) or a clone made when the entry was      *)
(* pushed (ref = 0; later merges into the seen object do not reach it).     *)
(***************************************************************************)
\* the states pushed on the queue while one state is processed
expandSuccessors(state) ==
    IF state.elementIndex = -1 \/ NoElem(state.elementIndex) THEN <<>>
    ELSE LET elem == Elem(state.elementIndex)
         IN CASE isFinish(elem) -> <<>>
              [] isVar(elem) ->
                    IF CountAt(state, elem.depth) >= elem.min
                    THEN <<ExitState(state, elem)>> ELSE <<>>
              [] isAltStart(elem) ->
                    LET endIdx == findGroupEnd(elem)
                    IN IF endIdx # -1 /\ CountAt(state, Elem(endIdx).depth) >= Elem(endIdx).min
                       THEN <<ExitState(state, Elem(endIdx))>>
                       ELSE <<>>
              [] isGroupEnd(elem) -> transitionGroupEnd(state, elem)
              [] OTHER -> <<>>

\* the entry pushed on result while one state (stored at seen[pos]) is processed
expandResultEntry(state, pos) ==
    IF state.elementIndex = -1 THEN <<[ref |-> pos, own |-> state]>>
    ELSE IF NoElem(state.elementIndex)
         THEN <<[ref |-> 0, own |-> [state EXCEPT !.elementIndex = -1]]>>
         ELSE LET elem == Elem(state.elementIndex)
              IN CASE isFinish(elem) ->
                        <<[ref |-> 0, own |-> [state EXCEPT !.elementIndex = -1]]>>
                   [] isVar(elem) \/ isAltStart(elem) -> <<[ref |-> pos, own |-> state]>>
                   [] OTHER -> <<>>

\* bound on the number of queue steps of one expansion
ExpandFuel == 200

RECURSIVE expandLoop(_, _, _, _)
expandLoop(queue, seen, result, fuel) ==
    IF queue = <<>> \/ fuel = 0
    THEN [i \in 1..Len(result) |->
            IF result[i].ref > 0 THEN seen[result[i].ref] ELSE result[i].own]
    ELSE LET state == Head(queue)
             i == HashIndex(seen, hash(state))
         IN IF i > 0
            THEN expandLoop(Tail(queue), [seen EXCEPT ![i] = mergeSummaries(@, state)],
                            result, fuel - 1)
            ELSE expandLoop(Tail(queue) \o expandSuccessors(state),
                            Append(seen, state),
                            result \o expandResultEntry(state, Len(seen) + 1),
                            fuel - 1)

expandToWaitPositions(states) == expandLoop(states, <<>>, <<>>, ExpandFuel)

(***************************************************************************)
(* nfa.js: viability filter and alternation helpers                         *)
(***************************************************************************)
RECURSIVE canAltMatchFrom(_, _, _)
canAltMatchFrom(altIdx, trueVars, fuel) ==
    IF NoElem(altIdx) \/ fuel = 0 THEN FALSE
    ELSE LET elem == Elem(altIdx)
         IN IF isVar(elem) /\ hasVarId(trueVars, elem.varId) THEN TRUE
            ELSE IF isAltStart(elem) /\ canAltMatchFrom(elem.next, trueVars, fuel - 1)
                 THEN TRUE
                 ELSE canAltMatchFrom(elem.jump, trueVars, fuel - 1)
canAltMatch(altElem, trueVars) ==
    canAltMatchFrom(altElem.next, trueVars, 2 * Len(pattern.elements))

RECURSIVE findConsumableAlternativesFrom(_, _, _, _)
findConsumableAlternativesFrom(state, altIdx, trueVars, fuel) ==
    IF NoElem(altIdx) \/ fuel = 0 THEN <<>>
    ELSE LET elem == Elem(altIdx)
             here == IF isVar(elem) /\ hasVarId(trueVars, elem.varId)
                     THEN <<[state EXCEPT !.elementIndex = altIdx]>>
                     ELSE IF isAltStart(elem)
                          THEN findConsumableAlternativesFrom(state, elem.next, trueVars, fuel - 1)
                          ELSE <<>>
         IN here \o findConsumableAlternativesFrom(state, elem.jump, trueVars, fuel - 1)
findConsumableAlternatives(state, altElem, trueVars) ==
    findConsumableAlternativesFrom(state, altElem.next, trueVars, 2 * Len(pattern.elements))

isViable(state, trueVars) ==
    IF state.elementIndex = -1 \/ NoElem(state.elementIndex) THEN TRUE
    ELSE LET elem == Elem(state.elementIndex)
         IN CASE isAltStart(elem) ->
                    \/ canAltMatch(elem, trueVars)
                    \/ LET endIdx == findGroupEnd(elem)
                       IN endIdx # -1 /\ CountAt(state, Elem(endIdx).depth) >= Elem(endIdx).min
              [] isVar(elem) ->
                    hasVarId(trueVars, elem.varId) \/ CountAt(state, elem.depth) >= elem.min
              [] OTHER -> TRUE

filterNonViableStates(states, trueVars) == SelectSeq(states, LAMBDA st : isViable(st, trueVars))

(***************************************************************************)
(* nfa.js: consumeInput                                                     *)
(***************************************************************************)
\* a deadStates record
DeadState(ctxId, state) ==
    [contextId |-> ctxId, elementIndex |-> state.elementIndex, counts |-> state.counts,
     matchedPaths |-> getMatchedPaths(state), reason |-> "mismatch"]

RECURSIVE consumeLoop(_, _, _, _)
consumeLoop(states, trueVars, ctxId, acc) ==
    IF states = <<>> THEN acc
    ELSE LET state == Head(states)
             results == transition(state, trueVars)
             done == SelectSeq(results, LAMBDA r : r.elementIndex = -1)
             live == SelectSeq(results, LAMBDA r : r.elementIndex # -1)
         IN consumeLoop(Tail(states), trueVars, ctxId,
                [activeStates |-> AddOrMergeAll(acc.activeStates, live),
                 completedStates |-> AddOrMergeAll(acc.completedStates, done),
                 deadStates |-> IF Len(results) = 0
                                THEN Append(acc.deadStates, DeadState(ctxId, state))
                                ELSE acc.deadStates])

consumeInput(states, trueVars, ctxId) ==
    consumeLoop(states, trueVars, ctxId,
                [activeStates |-> <<>>, completedStates |-> <<>>, deadStates |-> <<>>])

(***************************************************************************)
(* nfa.js: MatchContext                                                     *)
(***************************************************************************)
\* null
NoFallback == <<>>

\* new MatchContext(matchStart) with id taken from the counter _ctxId
MatchContext(id, matchStart) ==
    [id |-> id, matchStart |-> matchStart, matchEnd |-> -1, isCompleted |-> FALSE,
     states |-> <<>>, completedPaths |-> <<>>, _greedyFallback |-> NoFallback]

\* _pathSet holds the keys of the paths stored in completedPaths (id prefix dropped)
inPathSet(ctx, key) ==
    \E i \in 1..Len(ctx.completedPaths) : join(Tail(ctx.completedPaths[i])) = key

addCompletedPath_NoSet(ctx, path) ==
    IF Len(path) = 0 THEN ctx
    ELSE [ctx EXCEPT !.completedPaths = Append(@, <<ctx.id>> \o path)]

addCompletedPath(ctx, path) ==
    IF Len(path) = 0 \/ inPathSet(ctx, join(path)) THEN ctx
    ELSE [ctx EXCEPT !.completedPaths = Append(@, <<ctx.id>> \o path)]

RECURSIVE addCompletedPaths(_, _)
addCompletedPaths(ctx, paths) ==
    IF paths = <<>> THEN ctx
    ELSE addCompletedPaths(addCompletedPath(ctx, Head(paths)), Tail(paths))

getCompletedPaths(ctx) == ctx.completedPaths

\* matchedPaths of every state of the list, in order
allMatchedPaths(states) ==
    ConcatAll([i \in 1..Len(states) |-> getMatchedPaths(states[i])])

\* a match end taken from the first completed path
matchEndOf_FirstPath(ctx) ==
    ctx.matchStart + (IF Len(ctx.completedPaths) > 0 THEN Len(ctx.completedPaths[1]) - 1 ELSE 0) - 1

\* matchStart + maxLen - 1 over completedPaths (id prefix excluded)
matchEndOf(ctx) ==
    ctx.matchStart
      + MaxOf({0} \cup { Len(ctx.completedPaths[i]) - 1 : i \in 1..Len(ctx.completedPaths) })
      - 1

\* separation of completed from active states and merge of duplicates
separateStates(consumeResult, nextWaitStates) ==
    [states |-> mergeStates(SelectSeq(nextWaitStates, LAMBDA st : st.elementIndex # -1)),
     completedStates |->
         AddOrMergeAll(consumeResult.completedStates,
                       SelectSeq(nextWaitStates, LAMBDA st : st.elementIndex = -1)),
     deadStates |-> consumeResult.deadStates]

\* the viability filter, applied when no pattern variable is true in the row
viableStates(expanded, trueVars) ==
    IF varIdsSize(trueVars) = 0 THEN filterNonViableStates(expanded, trueVars)
    ELSE expanded

expandConsumed(consumeResult, trueVars) ==
    separateStates(consumeResult,
                   viableStates(expandToWaitPositions(consumeResult.activeStates), trueVars))

\* the part shared by tryStartNewContext and processContext: consumption,
\* expansion, viability filter, separation of completed from active, merge
advanceStates(states, trueVars, ctxId) ==
    expandConsumed(consumeInput(states, trueVars, ctxId), trueVars)

(***************************************************************************)
(* nfa.js: tryStartNewContext                                               *)
(***************************************************************************)
consumableOf(state, trueVars) ==
    IF state.elementIndex = -1 \/ NoElem(state.elementIndex) THEN <<>>
    ELSE LET elem == Elem(state.elementIndex)
         IN IF isVar(elem) /\ hasVarId(trueVars, elem.varId) THEN <<state>>
            ELSE IF isAltStart(elem) THEN findConsumableAlternatives(state, elem, trueVars)
                 ELSE <<>>

consumableStatesOf(waitStates, trueVars) ==
    ConcatAll([i \in 1..Len(waitStates) |-> consumableOf(waitStates[i], trueVars)])

\* matchEnd and isCompleted of a context that starts with completed paths
startedContext(ctx) ==
    IF Len(ctx.completedPaths) > 0
    THEN [ctx EXCEPT !.matchEnd = matchEndOf(ctx), !.isCompleted = Len(ctx.states) = 0]
    ELSE ctx

newContext(id, row, adv) ==
    startedContext(addCompletedPaths([MatchContext(id, row) EXCEPT !.states = adv.states],
                                     allMatchedPaths(adv.completedStates)))

pushStarted(ctxs, ctx) ==
    IF Len(ctx.states) > 0 \/ ctx.isCompleted THEN Append(ctxs, ctx) ELSE ctxs

startContext(ctxs, idCounter, row, trueVars, consumableStates) ==
    IF Len(consumableStates) = 0 THEN [contexts |-> ctxs, ctxId |-> idCounter]
    ELSE [contexts |->
              pushStarted(ctxs, newContext(idCounter, row,
                                           advanceStates(consumableStates, trueVars, idCounter))),
          ctxId |-> idCounter + 1]

\* [contexts, ctxId]: this.contexts and _ctxId after tryStartNewContext
tryStartNewContext(ctxs, idCounter, row, trueVars) ==
    IF Len(pattern.elements) = 0 THEN [contexts |-> ctxs, ctxId |-> idCounter]
    ELSE startContext(ctxs, idCounter, row, trueVars,
                      consumableStatesOf(expandToWaitPositions(<<InitialState>>), trueVars))

(***************************************************************************)
(* nfa.js: processContext                                                   *)
(***************************************************************************)
\* the arm scan of the canProgressFurther loop (arms are not entered recursively)
RECURSIVE armCanConsume(_, _, _)
armCanConsume(altIdx, trueVars, fuel) ==
    IF NoElem(altIdx) \/ fuel = 0 THEN FALSE
    ELSE \/ isVar(Elem(altIdx)) /\ hasVarId(trueVars, Elem(altIdx).varId)
         \/ armCanConsume(Elem(altIdx).jump, trueVars, fuel - 1)

canProgressFurther(states, trueVars) ==
    \E i \in 1..Len(states) :
        /\ ~NoElem(states[i].elementIndex)
        /\ LET elem == Elem(states[i].elementIndex)
           IN \/ isVar(elem) /\ hasVarId(trueVars, elem.varId)
              \/ isAltStart(elem) /\ armCanConsume(elem.next, trueVars, Len(pattern.elements))

\* first path of maximal length
bestPathOf(paths) ==
    paths[MinOf({ i \in 1..Len(paths) : \A j \in 1..Len(paths) : Len(paths[j]) <= Len(paths[i]) })]

DiscardedState(ctxId, path) ==
    [contextId |-> ctxId, elementIndex |-> -1, counts |-> <<>>,
     matchedPaths |-> <<path>>, reason |-> "greedy_defer"]

\* greedy mode: completions are deferred while the context can go on
shouldDefer(completedStates, states, trueVars) ==
    /\ ~pattern.reluctant
    /\ Len(completedStates) > 0
    /\ Len(states) > 0
    /\ canProgressFurther(states, trueVars)
    /\ varIdsSize(trueVars) > 0

\* a deferral that takes the best completion of every step as the fallback
deferCompletions_Always(ctx, paths) ==
    IF Len(paths) > 0 THEN [ctx EXCEPT !._greedyFallback = <<bestPathOf(paths)>>] ELSE ctx

\* the best completion replaces the greedy fallback if it is longer
deferCompletions(ctx, paths) ==
    IF Len(paths) > 0
       /\ (ctx._greedyFallback = NoFallback
           \/ Len(bestPathOf(paths)) > Len(ctx._greedyFallback[1]))
    THEN [ctx EXCEPT !._greedyFallback = <<bestPathOf(paths)>>]
    ELSE ctx

\* the greedy fallback, if any, then all current completed paths
finalizeCompletions(ctx, paths) ==
    addCompletedPaths(IF ctx._greedyFallback # NoFallback
                      THEN [addCompletedPath(ctx, ctx._greedyFallback[1])
                               EXCEPT !._greedyFallback = NoFallback]
                      ELSE ctx,
                      paths)

updateMatchEnd(ctx) ==
    IF Len(ctx.completedPaths) > 0 THEN [ctx EXCEPT !.matchEnd = matchEndOf(ctx)] ELSE ctx

\* a completion check that does not look at the live states
checkCompletion_WithLiveStates(ctx) ==
    IF Len(ctx.completedPaths) > 0 \/ ctx.matchEnd >= 0
    THEN [ctx EXCEPT !.isCompleted = TRUE]
    ELSE ctx

checkCompletion(ctx) ==
    IF Len(ctx.states) = 0 /\ (Len(ctx.completedPaths) > 0 \/ ctx.matchEnd >= 0)
    THEN [ctx EXCEPT !.isCompleted = TRUE]
    ELSE ctx

settleContext(ctx, defer, paths, deadStates) ==
    [ctx |-> checkCompletion(updateMatchEnd(IF defer THEN deferCompletions(ctx, paths)
                                            ELSE finalizeCompletions(ctx, paths))),
     discardedStates |->
         IF defer THEN [i \in 1..Len(paths) |-> DiscardedState(ctx.id, paths[i])]
         ELSE <<>>,
     deadStates |-> deadStates]

advancedContext(ctx, adv, trueVars) ==
    settleContext([ctx EXCEPT !.states = adv.states],
                  shouldDefer(adv.completedStates, adv.states, trueVars),
                  allMatchedPaths(adv.completedStates),
                  adv.deadStates)

\* [ctx, discardedStates, deadStates]
processContext(ctx, row, trueVars) ==
    advancedContext(ctx, advanceStates(ctx.states, trueVars, ctx.id), trueVars)

(***************************************************************************)
(* nfa.js: absorbContexts                                                   *)
(***************************************************************************)
\* Array.prototype.sort by matchStart (stable)
RECURSIVE insertByStart(_, _)
insertByStart(sorted, ctx) ==
    IF sorted = <<>> THEN <<ctx>>
    ELSE IF sorted[Len(sorted)].matchStart <= ctx.matchStart THEN Append(sorted, ctx)
         ELSE Append(insertByStart(SubSeq(sorted, 1, Len(sorted) - 1), ctx), sorted[Len(sorted)])
RECURSIVE sortByStartFrom(_, _)
sortByStartFrom(sorted, rest) ==
    IF rest = <<>> THEN sorted
    ELSE sortByStartFrom(insertByStart(sorted, Head(rest)), Tail(rest))
sortByStart(ctxs) == sortByStartFrom(<<>>, ctxs)

\* the counts comparison of one earlier state against one later state
countsMatch(es, ls) ==
    IF NoElem(es.elementIndex) THEN TRUE
    ELSE IF Elem(es.elementIndex).max = Infinity
         THEN \A d \in 1..Len(es.counts) : es.counts[d] >= ls.counts[d]
         ELSE \A d \in 1..Len(es.counts) : es.counts[d] = ls.counts[d]

canAbsorb(earlier, later) ==
    \A li \in 1..Len(later.states) :
        \E ei \in 1..Len(earlier.states) :
            /\ earlier.states[ei].elementIndex = later.states[li].elementIndex
            /\ countsMatch(earlier.states[ei], later.states[li])

AbsorbedState(state) ==
    [elementIndex |-> state.elementIndex, counts |-> state.counts,
     matchedPaths |-> getMatchedPaths(state)]

\* the (i, j) double loop; absorbed is the set of absorbed positions
RECURSIVE absorbLoop(_, _, _, _, _)
absorbLoop(ctxs, i, j, absorbed, absorptions) ==
    IF i > Len(ctxs) THEN [absorbed |-> absorbed, absorptions |-> absorptions]
    ELSE IF i \in absorbed \/ ctxs[i].isCompleted \/ j > Len(ctxs)
         THEN absorbLoop(ctxs, i + 1, i + 2, absorbed, absorptions)
         ELSE IF /\ j \notin absorbed
                 /\ ~ctxs[j].isCompleted
                 /\ canAbsorb(ctxs[i], ctxs[j])
                 /\ Len(ctxs[j].states) > 0
              THEN absorbLoop(ctxs, i, j + 1, absorbed \cup {j},
                        Append(absorptions,
                               [absorbedId |-> ctxs[j].id, byId |-> ctxs[i].id,
                                states |-> [k \in 1..Len(ctxs[j].states) |->
                                               AbsorbedState(ctxs[j].states[k])]]))
              ELSE absorbLoop(ctxs, i, j + 1, absorbed, absorptions)

absorbContexts_None(ctxs) == [contexts |-> ctxs, absorptions |-> <<>>]

\* [contexts, absorptions]
absorbContexts(ctxs) ==
    IF Len(ctxs) <= 1 THEN [contexts |-> ctxs, absorptions |-> <<>>]
    ELSE LET sorted == sortByStart(ctxs)
             r == absorbLoop(sorted, 1, 2, {}, <<>>)
             kept == SelectSeq([k \in 1..Len(sorted) |-> k], LAMBDA k : k \notin r.absorbed)
         IN [contexts |-> [k \in 1..Len(kept) |-> sorted[kept[k]]],
             absorptions |-> r.absorptions]

(***************************************************************************)
(* nfa.js: emitContext, emitRows                                            *)
(***************************************************************************)
toVarNames(path) == [i \in 1..Len(path) |-> pattern.variables[path[i] + 1]]

\* variant of emitContext that takes the last completed path under ONE_ROW
emitContext_LastPath(ctx) ==
    LET paths == ctx.completedPaths
        outputPaths == IF outputMode = OUTPUT_ONE_ROW
                       THEN (IF Len(paths) > 0 THEN <<paths[Len(paths)]>> ELSE <<>>)
                       ELSE paths
    IN [contextId |-> ctx.id, matchStart |-> ctx.matchStart, matchEnd |-> ctx.matchEnd,
        paths |-> [i \in 1..Len(outputPaths) |->
                      [k \in 1..Len(Tail(outputPaths[i])) |->
                          pattern.variables[Tail(outputPaths[i])[k] + 1]]]]

\* the result record emitContext builds and appends to emittedResults
emitContext(ctx) ==
    LET paths == getCompletedPaths(ctx)
        outputPaths == IF outputMode = OUTPUT_ONE_ROW
                       THEN (IF Len(paths) > 0 THEN <<paths[1]>> ELSE <<>>)
                       ELSE paths
    IN [contextId |-> ctx.id, matchStart |-> ctx.matchStart, matchEnd |-> ctx.matchEnd,
        paths |-> [i \in 1..Len(outputPaths) |-> toVarNames(Tail(outputPaths[i]))]]

QueueEntry(ctx) == [contextId |-> ctx.id, matchStart |-> ctx.matchStart, matchEnd |-> ctx.matchEnd]
DiscardEntry(ctx) ==
    [contextId |-> ctx.id, matchStart |-> ctx.matchStart, matchEnd |-> ctx.matchEnd,
     reason |-> "SKIP PAST LAST"]

earliestStartOf(ctxs, queue) ==
    MinOf({Infinity} \cup { ctxs[i].matchStart : i \in 1..Len(ctxs) }
                     \cup { queue[i].matchStart : i \in 1..Len(queue) })

\* variant of overlapsLastEmitted that never discards
overlapsLastEmitted_Never(ctx, lastEnd) == FALSE

\* SKIP PAST LAST: the context starts at or before the end of the last emitted match
overlapsLastEmitted(ctx, lastEnd) ==
    skipMode = SKIP_PAST_LAST /\ ctx.matchStart <= lastEnd

\* a newly completed context is emitted at once (otherwise it is queued)
emitsAtOnce(ctx, earliestStart, hasActiveAtEarliest) ==
    ctx.matchStart = earliestStart /\ ~hasActiveAtEarliest

\* first loop of emitRows: completed contexts are emitted at once or queued
RECURSIVE emitCompleted(_, _, _, _)
emitCompleted(ctxs, earliestStart, hasActiveAtEarliest, acc) ==
    IF ctxs = <<>> THEN acc
    ELSE LET ctx == Head(ctxs)
             inQueue == \E j \in 1..Len(acc.completedContexts) :
                            acc.completedContexts[j].id = ctx.id
             next ==
                IF ~(ctx.isCompleted /\ Len(ctx.completedPaths) > 0) \/ inQueue THEN acc
                ELSE IF emitsAtOnce(ctx, earliestStart, hasActiveAtEarliest)
                     THEN IF overlapsLastEmitted(ctx, acc.lastEmittedEnd)
                          THEN [acc EXCEPT !.discarded = Append(@, DiscardEntry(ctx))]
                          ELSE [acc EXCEPT !.emitted = Append(@, emitContext(ctx)),
                                           !.emittedResults = Append(@, emitContext(ctx)),
                                           !.lastEmittedEnd = ctx.matchEnd]
                     ELSE [acc EXCEPT !.completedContexts = Append(@, ctx),
                                      !.queued = Append(@, QueueEntry(ctx))]
         IN emitCompleted(Tail(ctxs), earliestStart, hasActiveAtEarliest, next)

\* second loop of emitRows: the sorted queue is walked until a rule stops it;
\* kept collects the entries that stay queued
RECURSIVE processQueue(_, _, _, _)
processQueue(queue, activeCtxStart, kept, acc) ==
    IF queue = <<>> THEN [acc EXCEPT !.completedContexts = kept]
    ELSE LET ctx == Head(queue)
         IN IF ctx.matchStart >= activeCtxStart
            THEN [acc EXCEPT !.completedContexts = kept \o queue]
            ELSE IF overlapsLastEmitted(ctx, acc.lastEmittedEnd)
                 THEN processQueue(Tail(queue), activeCtxStart, kept,
                                   [acc EXCEPT !.discarded = Append(@, DiscardEntry(ctx))])
                 ELSE IF skipMode = SKIP_TO_NEXT /\ ctx.matchEnd >= activeCtxStart
                      THEN [acc EXCEPT !.completedContexts = kept \o queue]
                      ELSE processQueue(Tail(queue), activeCtxStart, kept,
                                        [acc EXCEPT !.emitted = Append(@, emitContext(ctx)),
                                                    !.emittedResults = Append(@, emitContext(ctx)),
                                                    !.lastEmittedEnd = ctx.matchEnd])

\* variant of sortQueue that orders the queue by descending matchStart
sortQueue_Descending(queue) ==
    [i \in 1..Len(queue) |-> sortByStart(queue)[Len(queue) + 1 - i]]

\* this.completedContexts.sort by matchStart
sortQueue(queue) == sortByStart(queue)

activeCtxStartOf(ctxs) ==
    IF \E i \in 1..Len(ctxs) : ~ctxs[i].isCompleted
    THEN ctxs[MinOf({ i \in 1..Len(ctxs) : ~ctxs[i].isCompleted })].matchStart
    ELSE Infinity

hasActiveAt(ctxs, start) ==
    \E i \in 1..Len(ctxs) : ctxs[i].matchStart = start /\ ~ctxs[i].isCompleted

emitQueued(ctxs, first) ==
    processQueue(sortQueue(first.completedContexts), activeCtxStartOf(ctxs), <<>>, first)

emitFrom(ctxs, earliestStart, acc) ==
    emitQueued(ctxs, emitCompleted(ctxs, earliestStart, hasActiveAt(ctxs, earliestStart), acc))

\* [completedContexts, emittedResults, lastEmittedEnd, emitted, queued, discarded]
emitRows(ctxs, queue, results, lastEnd) ==
    emitFrom(ctxs, earliestStartOf(ctxs, queue),
             [completedContexts |-> queue, emittedResults |-> results,
              lastEmittedEnd |-> lastEnd,
              emitted |-> <<>>, queued |-> <<>>, discarded |-> <<>>])

(***************************************************************************)
(* nfa.js: processRow                                                       *)
(***************************************************************************)
appendProcessed(acc, r) ==
    [contexts |-> Append(acc.contexts, r.ctx),
     discardedStates |-> acc.discardedStates \o r.discardedStates,
     deadStates |-> acc.deadStates \o r.deadStates]

\* step 2: processContext on every context that is neither completed nor new
RECURSIVE processContexts(_, _, _, _)
processContexts(ctxs, row, trueVars, acc) ==
    IF ctxs = <<>> THEN acc
    ELSE IF Head(ctxs).isCompleted \/ Head(ctxs).matchStart = row
         THEN processContexts(Tail(ctxs), row, trueVars,
                              [acc EXCEPT !.contexts = Append(@, Head(ctxs))])
         ELSE processContexts(Tail(ctxs), row, trueVars,
                              appendProcessed(acc, processContext(Head(ctxs), row, trueVars)))

SnapshotState(state) ==
    [elementIndex |-> state.elementIndex, counts |-> state.counts,
     matchedPaths |-> [k \in 1..Len(getMatchedPaths(state)) |->
                          toVarNames(getMatchedPaths(state)[k])]]

\* one entry of contextSnapshot
SnapshotContext(ctx) ==
    [id |-> ctx.id, matchStart |-> ctx.matchStart, matchEnd |-> ctx.matchEnd,
     isCompleted |-> ctx.isCompleted,
     isDead |-> Len(ctx.states) = 0 /\ ~ctx.isCompleted,
     completedPaths |-> [j \in 1..Len(ctx.completedPaths) |->
                            <<ctx.completedPaths[j][1]>> \o toVarNames(Tail(ctx.completedPaths[j]))],
     states |-> [j \in 1..Len(ctx.states) |-> SnapshotState(ctx.states[j])]]

contextSnapshotOf(ctxs, deadStates) ==
    LET shown == SelectSeq(ctxs, LAMBDA ctx :
                    \/ Len(ctx.states) > 0
                    \/ ctx.isCompleted
                    \/ \E i \in 1..Len(deadStates) : deadStates[i].contextId = ctx.id)
    IN [i \in 1..Len(shown) |-> SnapshotContext(shown[i])]

\* steps 5 to 7: history entry, removal of finished contexts, result
rowResult(ex, row, trueVars, ctxId, processed, absorbed, emitResult) ==
    [contexts |-> SelectSeq(absorbed.contexts,
                            LAMBDA ctx : Len(ctx.states) > 0 /\ ~ctx.isCompleted),
     currentRow |-> row,
     completedContexts |-> emitResult.completedContexts,
     emittedResults |-> emitResult.emittedResults,
     lastEmittedEnd |-> emitResult.lastEmittedEnd,
     ctxIdCounter |-> ctxId,
     history |-> Append(ex.history,
                     [row |-> row, input |-> trueVars,
                      contexts |-> contextSnapshotOf(absorbed.contexts, processed.deadStates),
                      absorptions |-> absorbed.absorptions,
                      discardedStates |-> processed.discardedStates,
                      deadStates |-> processed.deadStates,
                      emitted |-> emitResult.emitted, queued |-> emitResult.queued,
                      discarded |-> emitResult.discarded])]

\* step 4: emitRows
emitStep(ex, row, trueVars, ctxId, processed, absorbed) ==
    rowResult(ex, row, trueVars, ctxId, processed, absorbed,
              emitRows(absorbed.contexts, ex.completedContexts, ex.emittedResults,
                       ex.lastEmittedEnd))

\* step 3: absorbContexts
absorbStep(ex, row, trueVars, ctxId, processed) ==
    emitStep(ex, row, trueVars, ctxId, processed, absorbContexts(processed.contexts))

\* step 2: processContext on the existing contexts
contextsStep(ex, row, trueVars, started) ==
    absorbStep(ex, row, trueVars, started.ctxId,
               processContexts(started.contexts, row, trueVars,
                   [contexts |-> <<>>, discardedStates |-> <<>>, deadStates |-> <<>>]))

\* step 1: tryStartNewContext
startStep(ex, row, trueVars) ==
    contextsStep(ex, row, trueVars,
                 tryStartNewContext(ex.contexts, ex.ctxIdCounter, row, trueVars))

\* processRow(trueVarNames) on the executor with fields ex, _ctxId being
\* ex.ctxIdCounter: the fields and the counter after the call
processRowOf(ex, trueVarNames) == startStep(ex, ex.currentRow + 1, toVarIds(trueVarNames))

\* the fields of the executor under analysis and the counter _ctxId
Executor ==
    [contexts |-> contexts, currentRow |-> currentRow,
     completedContexts |-> completedContexts, emittedResults |-> emittedResults,
     lastEmittedEnd |-> lastEmittedEnd, ctxIdCounter |-> ctxIdCounter, history |-> history]

\* the executor after processRow(trueVarNames)
processRow(trueVarNames) == processRowOf(Executor, trueVarNames)

\* variant of the constructor that leaves _ctxId as it is
NewExecutor_KeepCtxId ==
    [contexts |-> <<>>, currentRow |-> -1, history |-> <<>>, completedContexts |-> <<>>,
     emittedResults |-> <<>>, lastEmittedEnd |-> -1, ctxIdCounter |-> ctxIdCounter]

\* new NFAExecutor(pattern, options): the fields the constructor sets, and _ctxId
NewExecutor ==
    [contexts |-> <<>>, currentRow |-> -1, history |-> <<>>, completedContexts |-> <<>>,
     emittedResults |-> <<>>, lastEmittedEnd |-> -1, ctxIdCounter |-> 0]

\* reset(): the fields it assigns, and _ctxId
reset_KeepCtxId(ex) ==
    [ex EXCEPT !.contexts = <<>>, !.currentRow = -1, !.history = <<>>,
               !.completedContexts = <<>>, !.emittedResults = <<>>,
               !.lastEmittedEnd = -1]

reset(ex) ==
    [ex EXCEPT !.contexts = <<>>, !.currentRow = -1, !.history = <<>>,
               !.completedContexts = <<>>, !.emittedResults = <<>>,
               !.lastEmittedEnd = -1, !.ctxIdCounter = 0]

(***************************************************************************)
(* Patterns under analysis, as parseSequence / handleAlternation build them *)
(***************************************************************************)
V(name) == VarNode(name, 1, 1, FALSE)
Plus(name) == VarNode(name, 1, Infinity, FALSE)

\* A B+ C
AstSeqPlus == SeqNode(<<V("A"), Plus("B"), V("C")>>)
\* A+ B
AstPlusThen == SeqNode(<<Plus("A"), V("B")>>)
\* A+? B
AstReluctant == SeqNode(<<VarNode("A", 1, Infinity, TRUE), V("B")>>)
\* ( A | B C )+
AstAltPlus ==
    SeqNode(<<GroupNode(AltNode(<<SeqNode(<<V("A")>>), SeqNode(<<V("B"), V("C")>>)>>),
                        1, Infinity, FALSE)>>)
\* ( A | B ) C
AstAltThen ==
    SeqNode(<<GroupNode(AltNode(<<SeqNode(<<V("A")>>), SeqNode(<<V("B")>>)>>), 1, 1, FALSE),
              V("C")>>)
\* A+ ( B | A )+
AstPlusAltPlus ==
    SeqNode(<<Plus("A"),
              GroupNode(AltNode(<<SeqNode(<<V("B")>>), SeqNode(<<V("A")>>)>>),
                        1, Infinity, FALSE)>>)
\* ( A | A B )+ C
AstAltPrefix ==
    SeqNode(<<GroupNode(AltNode(<<SeqNode(<<V("A")>>), SeqNode(<<V("A"), V("B")>>)>>),
                        1, Infinity, FALSE),
              V("C")>>)
\* A ( B | A ) ( B )*
AstAltThenStar ==
    SeqNode(<<V("A"),
              GroupNode(AltNode(<<SeqNode(<<V("B")>>), SeqNode(<<V("A")>>)>>), 1, 1, FALSE),
              GroupNode(SeqNode(<<V("B")>>), 0, Infinity, FALSE)>>)
\* A ( B )?
AstOptGroup == SeqNode(<<V("A"), GroupNode(SeqNode(<<V("B")>>), 0, 1, FALSE)>>)
\* ( A B ){1,2}
AstBounded == SeqNode(<<GroupNode(SeqNode(<<V("A"), V("B")>>), 1, 2, FALSE)>>)

\* ( A | A )+ B C?
AstAltSame ==
    SeqNode(<<GroupNode(AltNode(<<SeqNode(<<V("A")>>), SeqNode(<<V("A")>>)>>),
                        1, Infinity, FALSE),
              V("B"), VarNode("C", 0, 1, FALSE)>>)
\* ( A+ B+ ){1,2}
AstPlusInBounded == SeqNode(<<GroupNode(SeqNode(<<Plus("A"), Plus("B")>>), 1, 2, FALSE)>>)

\* Longest row stream fed to the executor in the long runs
MaxRowsLong == 6

Asts == { AstSeqPlus, AstPlusThen, AstReluctant, AstAltPlus, AstAltThen, AstPlusAltPlus,
          AstAltPrefix, AstAltThenStar, AstOptGroup, AstBounded, AstAltSame }
AstsLong == { AstPlusInBounded }

\* the row inputs: every set of variable names of the pattern
Rows == SUBSET Range(pattern.variables)

(***************************************************************************)
(* Specification                                                            *)
(***************************************************************************)
\* parsePattern(text) followed by new NFAExecutor(pattern, options)
InitExecutor(asts) ==
    /\ ast \in asts
    /\ pattern = compileAST(ast)
    /\ skipMode \in {SKIP_PAST_LAST, SKIP_TO_NEXT}
    /\ outputMode \in {OUTPUT_ONE_ROW, OUTPUT_ALL_ROWS}
    /\ contexts = <<>>
    /\ currentRow = -1
    /\ history = <<>>
    /\ completedContexts = <<>>
    /\ emittedResults = <<>>
    /\ lastEmittedEnd = -1
    /\ ctxIdCounter = 0
    /\ second = <<>>
    /\ alone = NewExecutor
    /\ previous = <<>>
    /\ driverRows = <<>>
    /\ seqRun = [pathSeq |-> 0, states |-> <<>>, fork |-> <<>>]
    /\ rowNames = <<>>

\* no pattern text is being parsed beside the executor
InitWith(asts) ==
    /\ InitExecutor(asts)
    /\ parseRun = <<>>

Init == InitWith(Asts)

\* executor.processRow(trueVarNames), for streams of at most `limit` rows
ProcessRowUpTo(limit, trueVarNames) ==
    /\ currentRow + 1 < limit
    /\ \E after \in {processRow(trueVarNames)} :
          /\ contexts' = after.contexts
          /\ currentRow' = after.currentRow
          /\ completedContexts' = after.completedContexts
          /\ emittedResults' = after.emittedResults
          /\ lastEmittedEnd' = after.lastEmittedEnd
          /\ ctxIdCounter' = after.ctxIdCounter
          /\ history' = after.history
    /\ driverRows' = Append(driverRows, currentRow + 1)
    /\ UNCHANGED auxVars
    /\ UNCHANGED <<ast, pattern, skipMode, outputMode, second, alone, previous>>

ProcessRow(trueVarNames) == ProcessRowUpTo(MaxRows, trueVarNames)

Next == \E trueVarNames \in Rows : ProcessRow(trueVarNames)

Spec == Init /\ [][Next]_vars

\* longer streams over the patterns of AstsLong
InitLong == InitWith(AstsLong)

ProcessRowLong(trueVarNames) == ProcessRowUpTo(MaxRowsLong, trueVarNames)

NextLong == \E trueVarNames \in Rows : ProcessRowLong(trueVarNames)

SpecLong == InitLong /\ [][NextLong]_vars

(***************************************************************************)
(* Two executors in one process: they share the module-level counter _ctxId *)
(***************************************************************************)
MaxRowsTwo == 3
MaxRowsSecond == 2
AstsTwo == { AstPlusThen }

InitTwo == InitWith(AstsTwo)

\* the assignment of an executor record to the fields of the executor under
\* analysis and to _ctxId
BecomesExecutor(after) ==
    /\ contexts' = after.contexts
    /\ currentRow' = after.currentRow
    /\ completedContexts' = after.completedContexts
    /\ emittedResults' = after.emittedResults
    /\ lastEmittedEnd' = after.lastEmittedEnd
    /\ ctxIdCounter' = after.ctxIdCounter
    /\ history' = after.history

\* first.processRow(trueVarNames); the executor that runs alone gets the same row
ProcessRowFirst(trueVarNames) ==
    /\ currentRow + 1 < MaxRowsTwo
    /\ \E after \in {processRow(trueVarNames)} : BecomesExecutor(after)
    /\ \E after \in {processRowOf(alone, trueVarNames)} : alone' = after
    /\ driverRows' = Append(driverRows, currentRow + 1)
    /\ UNCHANGED auxVars
    /\ UNCHANGED <<ast, pattern, skipMode, outputMode, second, previous>>

\* second = new NFAExecutor(pattern, options)
ConstructSecond ==
    /\ second = <<>>
    /\ second' = <<NewExecutor>>
    /\ ctxIdCounter' = NewExecutor.ctxIdCounter
    /\ UNCHANGED <<ast, pattern, skipMode, outputMode, contexts, currentRow,
                   completedContexts, emittedResults, lastEmittedEnd, history,
                   alone, previous, driverRows, auxVars>>

\* second.processRow(trueVarNames)
ProcessRowSecond(trueVarNames) ==
    /\ second # <<>>
    /\ second[1].currentRow + 1 < MaxRowsSecond
    /\ \E after \in {processRowOf([second[1] EXCEPT !.ctxIdCounter = ctxIdCounter],
                                  trueVarNames)} :
          /\ second' = <<after>>
          /\ ctxIdCounter' = after.ctxIdCounter
    /\ UNCHANGED <<ast, pattern, skipMode, outputMode, contexts, currentRow,
                   completedContexts, emittedResults, lastEmittedEnd, history,
                   alone, previous, driverRows, auxVars>>

\* second.reset()
ResetSecond ==
    /\ second # <<>>
    /\ second[1].currentRow >= 0
    /\ \E after \in {reset(second[1])} :
          /\ second' = <<after>>
          /\ ctxIdCounter' = after.ctxIdCounter
    /\ UNCHANGED <<ast, pattern, skipMode, outputMode, contexts, currentRow,
                   completedContexts, emittedResults, lastEmittedEnd, history,
                   alone, previous, driverRows, auxVars>>

NextTwo ==
    \/ \E trueVarNames \in Rows : ProcessRowFirst(trueVarNames)
    \/ ConstructSecond
    \/ \E trueVarNames \in Rows : ProcessRowSecond(trueVarNames)
    \/ ResetSecond

SpecTwo == InitTwo /\ [][NextTwo]_vars

(***************************************************************************)
(* A stream is run, a new executor is constructed for the same pattern and  *)
(* options, and the same stream is run again                                *)
(***************************************************************************)
MaxRowsRerun == 4
\* A+
AstPlus == SeqNode(<<Plus("A")>>)
\* A B+
AstThenPlus == SeqNode(<<V("A"), Plus("B")>>)
AstsRerun == { AstPlus, AstPlusThen, AstThenPlus }

InitRerun == InitWith(AstsRerun)

\* processRow on the first executor, any row
ProcessRowOnce(trueVarNames) ==
    /\ previous = <<>>
    /\ ProcessRowUpTo(MaxRowsRerun, trueVarNames)

\* executor = new NFAExecutor(pattern, options); the history of the executor
\* it replaces is kept for comparison
Construct ==
    /\ previous = <<>>
    /\ currentRow >= 0
    /\ previous' = history
    /\ BecomesExecutor(NewExecutor)
    /\ driverRows' = <<>>
    /\ UNCHANGED auxVars
    /\ UNCHANGED <<ast, pattern, skipMode, outputMode, second, alone>>

\* the names of the row the replaced executor was fed as row r
PreviousRow(r) == { pattern.variables[v + 1] : v \in previous[r + 1].input }

\* processRow on the new executor, with the row the replaced executor was fed
ProcessRowAgain ==
    /\ previous # <<>>
    /\ currentRow + 1 < Len(previous)
    /\ \E after \in {processRow(PreviousRow(currentRow + 1))} : BecomesExecutor(after)
    /\ driverRows' = Append(driverRows, currentRow + 1)
    /\ UNCHANGED auxVars
    /\ UNCHANGED <<ast, pattern, skipMode, outputMode, second, alone, previous>>

NextRerun ==
    \/ \E trueVarNames \in Rows : ProcessRowOnce(trueVarNames)
    \/ Construct
    \/ ProcessRowAgain

SpecRerun == InitRerun /\ [][NextRerun]_vars

(***************************************************************************)
(* Rows, reset(), rows; beside it a new executor is fed the rows that       *)
(* follow the reset                                                         *)
(***************************************************************************)
MaxRowsReset == 3
AstsReset == { AstPlus, AstPlusThen }

InitReset == InitWith(AstsReset)

ProcessRowBeforeReset(trueVarNames) ==
    /\ previous = <<>>
    /\ ProcessRowUpTo(MaxRowsReset, trueVarNames)

\* executor.reset(); the history before the reset is kept, and beside the
\* executor a new NFAExecutor(pattern, options) is constructed
Reset ==
    /\ previous = <<>>
    /\ currentRow >= 0
    /\ previous' = history
    /\ BecomesExecutor(reset(Executor))
    /\ alone' = NewExecutor
    /\ driverRows' = <<>>
    /\ UNCHANGED auxVars
    /\ UNCHANGED <<ast, pattern, skipMode, outputMode, second>>

\* processRow on the executor that was reset and on the new executor
ProcessRowAfterReset(trueVarNames) ==
    /\ previous # <<>>
    /\ currentRow + 1 < MaxRowsReset
    /\ \E after \in {processRow(trueVarNames)} : BecomesExecutor(after)
    /\ \E after \in {processRowOf(alone, trueVarNames)} : alone' = after
    /\ driverRows' = Append(driverRows, currentRow + 1)
    /\ UNCHANGED auxVars
    /\ UNCHANGED <<ast, pattern, skipMode, outputMode, second, previous>>

NextReset ==
    \/ \E trueVarNames \in Rows : ProcessRowBeforeReset(trueVarNames)
    \/ Reset
    \/ \E trueVarNames \in Rows : ProcessRowAfterReset(trueVarNames)

SpecReset == InitReset /\ [][NextReset]_vars

(***************************************************************************)
(* Rows that carry names outside the pattern's variable table               *)
(***************************************************************************)
MaxRowsNames == 3
AstsNames == { AstPlusThen, AstAltPlus }
ForeignNames == { "X" }

InitNames == InitWith(AstsNames)

\* executor.processRow(trueVarNames) on a row that may carry foreign names;
\* beside it an executor of its own is fed the row without them
ProcessRowNamed(trueVarNames) ==
    /\ currentRow + 1 < MaxRowsNames
    /\ \E after \in {processRow(trueVarNames)} : BecomesExecutor(after)
    /\ \E after \in {processRowOf(alone, trueVarNames \cap Range(pattern.variables))} :
          alone' = after
    /\ rowNames' = Append(rowNames, trueVarNames)
    /\ driverRows' = Append(driverRows, currentRow + 1)
    /\ UNCHANGED <<ast, pattern, skipMode, outputMode, second, previous, seqRun, parseRun>>

NextNames ==
    \E trueVarNames \in SUBSET (Range(pattern.variables) \cup ForeignNames) :
        ProcessRowNamed(trueVarNames)

SpecNames == InitNames /\ [][NextNames]_vars

(***************************************************************************)
(* A driver that calls processRow for rows in any order                     *)
(***************************************************************************)
MaxRowsDriver == 3
AstsDriver == { AstPlusThen }

InitDriver == InitWith(AstsDriver)

\* the driver's call for its row rowIndex: executor.processRow(trueVarNames).
\* processRow has no parameter for the row index and no guard on it: the row
\* is processed as row currentRow + 1
ProcessRowFor(rowIndex, trueVarNames) ==
    /\ currentRow + 1 < MaxRowsDriver
    /\ \E after \in {processRow(trueVarNames)} : BecomesExecutor(after)
    /\ driverRows' = Append(driverRows, rowIndex)
    /\ UNCHANGED auxVars
    /\ UNCHANGED <<ast, pattern, skipMode, outputMode, second, alone, previous>>

NextDriver ==
    \E rowIndex \in 0..(MaxRowsDriver - 1) :
        \E trueVarNames \in Rows : ProcessRowFor(rowIndex, trueVarNames)

SpecDriver == InitDriver /\ [][NextDriver]_vars

(***************************************************************************)
(* unnamed/part_000: the path sequence numbers of Summary and MatchState.   *)
(* A state is modelled by its summaries; elementIndex and counts carry no   *)
(* sequence number.  An operation that draws numbers from _pathSeq returns  *)
(* the counter beside its result.                                           *)
(***************************************************************************)
MaxPathSeq == 4
MaxSeqStates == 3
MaxSeqPathLen == 2
SeqVarIds == {0, 1}

\* new Summary(paths) on plain arrays: every path takes _pathSeq++
SummaryOfPaths(paths, pathSeq) ==
    [summary |-> [aggregates |-> <<>>,
                  paths |-> [i \in 1..Len(paths) |->
                                [seq |-> pathSeq + i - 1, path |-> paths[i]]]],
     pathSeq |-> pathSeq + Len(paths)]

\* variant of Summary.fork that keeps the sequence numbers, as clone does
SummaryFork_KeepSeq(sum, pathSeq) == [summary |-> sum, pathSeq |-> pathSeq]

\* Summary.fork: every path is copied under a new sequence number
SummaryFork(sum, pathSeq) ==
    [summary |-> [sum EXCEPT !.paths =
                     [i \in 1..Len(sum.paths) |->
                         [seq |-> pathSeq + i - 1, path |-> sum.paths[i].path]]],
     pathSeq |-> pathSeq + Len(sum.paths)]

\* Summary.withMatch: clone, then push varId on every path
SummaryWithMatchSeq(sum, varId) ==
    [sum EXCEPT !.paths =
        [i \in 1..Len(sum.paths) |-> [sum.paths[i] EXCEPT !.path = Append(@, varId)]]]

\* Summary.mergePaths: the paths of other whose key is new, under their seq
RECURSIVE mergePathsSeqLoop(_, _)
mergePathsSeqLoop(paths, others) ==
    IF others = <<>> THEN paths
    ELSE mergePathsSeqLoop(
            IF \E i \in 1..Len(paths) : join(paths[i].path) = join(Head(others).path)
            THEN paths ELSE Append(paths, Head(others)),
            Tail(others))
mergePathsSeq(sum, other) ==
    [sum EXCEPT !.paths = mergePathsSeqLoop(sum.paths, other.paths)]

\* new MatchState(elementIndex, counts): summaries = [new Summary([[]])]
MatchStateSeq(pathSeq) ==
    [state |-> [summaries |-> <<SummaryOfPaths(<< <<>> >>, pathSeq).summary>>],
     pathSeq |-> pathSeq + 1]

\* MatchState.withMatch
StateWithMatchSeq(state, varId) ==
    [summaries |-> [i \in 1..Len(state.summaries) |->
                       SummaryWithMatchSeq(state.summaries[i], varId)]]

\* the loop of MatchState.fork over this.summaries
RECURSIVE forkSummaries(_, _, _)
RECURSIVE forkSummariesStep(_, _, _)
forkSummaries(rest, done, pathSeq) ==
    IF rest = <<>> THEN [state |-> [summaries |-> done], pathSeq |-> pathSeq]
    ELSE forkSummariesStep(rest, done, SummaryFork(Head(rest), pathSeq))
forkSummariesStep(rest, done, forked) ==
    forkSummaries(Tail(rest), Append(done, forked.summary), forked.pathSeq)

\* MatchState.fork: new MatchState(elementIndex, counts, null) builds, and
\* throws away, the default summary [new Summary([[]])], which takes one
\* number; then every summary is forked
StateFork(state, pathSeq) ==
    forkSummaries(state.summaries, <<>>, MatchStateSeq(pathSeq).pathSeq)

\* MatchState.mergeSummaries (the aggregates of all summaries are {})
RECURSIVE mergeSummariesSeqLoop(_, _)
mergeSummariesSeqLoop(summaries, others) ==
    IF others = <<>> THEN summaries
    ELSE mergeSummariesSeqLoop(
            IF summaries # <<>>
            THEN [summaries EXCEPT ![1] = mergePathsSeq(@, Head(others))]
            ELSE <<Head(others)>>,
            Tail(others))
StateMergeSummariesSeq(state, other) ==
    [summaries |-> mergeSummariesSeqLoop(state.summaries, other.summaries)]

\* the sequence numbers a state carries
PathsOfState(state) == UNION { Range(state.summaries[i].paths) : i \in 1..Len(state.summaries) }
SeqsOf(state) == { p.seq : p \in PathsOfState(state) }
SeqsOfAll(states) == UNION { SeqsOf(states[i]) : i \in 1..Len(states) }
PathLenOf(state) == MaxOf({0} \cup { Len(p.path) : p \in PathsOfState(state) })

\* states with the entry at position i replaced by the list results
ReplaceAt(states, i, results) ==
    SubSeq(states, 1, i - 1) \o results \o SubSeq(states, i + 1, Len(states))

\* the record of the fork the last step made: the state that forked, the states of branch A, the
\* state of branch B and the value of _pathSeq before the fork
ForkRecord(original, branchA, branchB, before) ==
    <<[original |-> original, branchA |-> branchA, branchB |-> branchB, before |-> before]>>

SeqRunAfter(states, pathSeq, fork) == [pathSeq |-> pathSeq, states |-> states, fork |-> fork]

InitSeq ==
    /\ InitWith({ AstPlusThen })
    /\ skipMode = SKIP_PAST_LAST
    /\ outputMode = OUTPUT_ONE_ROW

SeqUnchanged ==
    UNCHANGED <<ast, pattern, skipMode, outputMode, contexts, currentRow, completedContexts,
                emittedResults, lastEmittedEnd, ctxIdCounter, history, second, alone,
                previous, driverRows, rowNames, parseRun>>

\* tryStartNewContext: var initState = new MatchState(0, initCounts)
StartSeq ==
    /\ Len(seqRun.states) < MaxSeqStates
    /\ seqRun.pathSeq < MaxPathSeq
    /\ \E init \in {MatchStateSeq(seqRun.pathSeq)} :
          seqRun' = SeqRunAfter(Append(seqRun.states, init.state), init.pathSeq, <<>>)
    /\ SeqUnchanged

\* transitionVar on a matching row: newState = state.withMatch(varId); when
\* forks (min is satisfied and max is not reached) the results are newState,
\* or its clone, and then newState.fork()
transitionVarForked(newState, forked) ==
    [states |-> <<newState, forked.state>>, pathSeq |-> forked.pathSeq]
transitionVarSeq(state, varId, forks, pathSeq) ==
    IF forks
    THEN transitionVarForked(StateWithMatchSeq(state, varId),
                             StateFork(StateWithMatchSeq(state, varId), pathSeq))
    ELSE [states |-> <<StateWithMatchSeq(state, varId)>>, pathSeq |-> pathSeq]

TransitionVarSeq(i, varId, forks) ==
    /\ seqRun.pathSeq < MaxPathSeq
    /\ PathLenOf(seqRun.states[i]) < MaxSeqPathLen
    /\ Len(seqRun.states) + (IF forks THEN 1 ELSE 0) <= MaxSeqStates
    /\ \E res \in {transitionVarSeq(seqRun.states[i], varId, forks, seqRun.pathSeq)} :
          seqRun' = SeqRunAfter(
                        ReplaceAt(seqRun.states, i, res.states), res.pathSeq,
                        IF forks
                        THEN ForkRecord(res.states[1], <<res.states[1]>>, res.states[2],
                                        seqRun.pathSeq)
                        ELSE <<>>)
    /\ SeqUnchanged

\* transitionAlt over two alternatives that both match: the first takes
\* state.clone() and makes its transition, which may fork itself; then the
\* second takes state.fork() and makes its transition
transitionAltSecond(state, first, forked, varId) ==
    [branchA |-> first.states,
     forkedState |-> forked.state,
     branchB |-> transitionVarSeq(forked.state, varId, FALSE, forked.pathSeq).states,
     pathSeq |-> forked.pathSeq]
transitionAltFirst(state, first, varId) ==
    transitionAltSecond(state, first, StateFork(state, first.pathSeq), varId)
transitionAltSeq(state, varIdA, varIdB, forks, pathSeq) ==
    transitionAltFirst(state, transitionVarSeq(state, varIdA, forks, pathSeq), varIdB)

TransitionAltSeq(i, varIdA, varIdB, forks) ==
    /\ seqRun.pathSeq < MaxPathSeq
    /\ PathLenOf(seqRun.states[i]) < MaxSeqPathLen
    /\ Len(seqRun.states) + (IF forks THEN 2 ELSE 1) <= MaxSeqStates
    /\ \E res \in {transitionAltSeq(seqRun.states[i], varIdA, varIdB, forks, seqRun.pathSeq)} :
          seqRun' = SeqRunAfter(
                        ReplaceAt(seqRun.states, i, res.branchA \o res.branchB), res.pathSeq,
                        ForkRecord(seqRun.states[i], res.branchA, res.forkedState,
                                   seqRun.pathSeq))
    /\ SeqUnchanged

\* the double push of transitionGroupEnd and expandToWaitPositions: the
\* state, or state.clone(), first and state.fork() second
ForkAtSeq(i) ==
    /\ seqRun.pathSeq < MaxPathSeq
    /\ Len(seqRun.states) < MaxSeqStates
    /\ \E forked \in {StateFork(seqRun.states[i], seqRun.pathSeq)} :
          seqRun' = SeqRunAfter(
                        ReplaceAt(seqRun.states, i, <<seqRun.states[i], forked.state>>),
                        forked.pathSeq,
                        ForkRecord(seqRun.states[i], <<seqRun.states[i]>>, forked.state,
                                   seqRun.pathSeq))
    /\ SeqUnchanged

\* mergeStates: merged[mergedIndex[hash]].mergeSummaries(state) for two
\* states of equal hash
MergeStatesSeq(i, j) ==
    /\ i < j
    /\ seqRun' = SeqRunAfter(
                     ReplaceAt(ReplaceAt(seqRun.states, j, <<>>), i,
                               <<StateMergeSummariesSeq(seqRun.states[i], seqRun.states[j])>>),
                     seqRun.pathSeq, <<>>)
    /\ SeqUnchanged

\* a state without transition leaves the list
DieSeq(i) ==
    /\ seqRun' = SeqRunAfter(ReplaceAt(seqRun.states, i, <<>>), seqRun.pathSeq, <<>>)
    /\ SeqUnchanged

NextSeq ==
    \/ StartSeq
    \/ \E i \in 1..Len(seqRun.states), varId \in SeqVarIds, forks \in BOOLEAN :
          TransitionVarSeq(i, varId, forks)
    \/ \E i \in 1..Len(seqRun.states), varIdA, varIdB \in SeqVarIds, forks \in BOOLEAN :
          TransitionAltSeq(i, varIdA, varIdB, forks)
    \/ \E i \in 1..Len(seqRun.states) : ForkAtSeq(i)
    \/ \E i, j \in 1..Len(seqRun.states) : MergeStatesSeq(i, j)
    \/ \E i \in 1..Len(seqRun.states) : DieSeq(i)

SpecSeq == InitSeq /\ [][NextSeq]_vars

(***************************************************************************)
(* Reference semantics: the language of a pattern AST                       *)
(***************************************************************************)
\* Positions j such that word[i+1..j] is matched by the node, starting after
\* position i.  A quantifier {min,max} repeats its operand min..max times.
RECURSIVE MatchEnds(_, _, _)
RECURSIVE SeqEnds(_, _, _)
RECURSIVE RepeatEnds(_, _, _, _, _, _)
MatchEnds(node, word, i) ==
    CASE node.type = "VAR" ->
            { i + k : k \in { n \in 0..(Len(word) - i) :
                                /\ n >= node.min
                                /\ n <= node.max
                                /\ \A m \in 1..n : word[i + m] = node.name } }
      [] node.type = "SEQ" -> SeqEnds(node.items, word, {i})
      [] node.type = "ALT" ->
            UNION { MatchEnds(node.alternatives[a], word, i) :
                        a \in 1..Len(node.alternatives) }
      [] node.type = "GROUP" ->
            RepeatEnds(node.content, word, {i}, 0, node.min,
                       IF node.max < node.min + Len(word) THEN node.max
                       ELSE node.min + Len(word))
SeqEnds(items, word, starts) ==
    IF items = <<>> THEN starts
    ELSE SeqEnds(Tail(items), word, UNION { MatchEnds(Head(items), word, i) : i \in starts })
\* ends reached after k repetitions (starts), for every count from lo to hi
RepeatEnds(content, word, starts, k, lo, hi) ==
    (IF k >= lo THEN starts ELSE {})
    \cup (IF k >= hi \/ starts = {} THEN {}
          ELSE RepeatEnds(content, word,
                          UNION { MatchEnds(content, word, i) : i \in starts },
                          k + 1, lo, hi))

\* the word (a sequence of variable names) belongs to the language of the AST
InLanguage(node, word) == Len(word) \in MatchEnds(node, word, 0)

(***************************************************************************)
(* Views on the run used by the properties                                  *)
(***************************************************************************)
\* the set of variable ids true in row r (rows are 0-based)
RowInput(r) == history[r + 1].input
RowProcessed(r) == r >= 0 /\ r < Len(history)
VarId(name) == indexOf(pattern.variables, name)
Emissions == 1..Len(emittedResults)

(***************************************************************************)
(* Properties                                                               *)
(***************************************************************************)
\* the word of variable names a path spells is true row by row from matchStart
PathFollowsRows(path, matchStart) ==
    \A i \in 1..Len(path) :
        /\ RowProcessed(matchStart + i - 1)
        /\ VarId(path[i]) \in RowInput(matchStart + i - 1)

\* C1: every emitted path is consistent with the input rows: its i-th variable
\* is true in row match_start + i, one variable per row and no row skipped.
C1_EmittedPathsFollowRows ==
    \A e \in Emissions :
        \A p \in 1..Len(emittedResults[e].paths) :
            PathFollowsRows(emittedResults[e].paths[p], emittedResults[e].matchStart)

\* C2: every emitted path is a word of the language of the pattern, every
\* quantifier's min and max being respected.
C2_EmittedPathsInLanguage ==
    \A e \in Emissions :
        \A p \in 1..Len(emittedResults[e].paths) :
            InLanguage(ast, emittedResults[e].paths[p])

\* rows 0..n-1 have exactly one true variable each and spell a word of the
\* pattern, and row n has no true pattern variable
CompleteWordThenEmptyRow(n) ==
    /\ n >= 1
    /\ RowProcessed(n)
    /\ RowInput(n) = {}
    /\ \A r \in 0..(n - 1) : Cardinality(RowInput(r)) = 1
    /\ InLanguage(ast, [r \in 1..n |->
                          pattern.variables[(CHOOSE v \in RowInput(r - 1) : TRUE) + 1]])

\* C3: when rows 0..n-1 spell a word of the pattern (one true variable per row)
\* and row n has no true pattern variable, a match starting at row 0 has been
\* emitted by the time processRow(row n) returns.
C3_CompleteWordIsEmitted ==
    CompleteWordThenEmptyRow(currentRow)
        => \E e \in Emissions : emittedResults[e].matchStart = 0

\* C4: for a pattern without reluctant quantifier the path emitted in ONE_ROW
\* mode is a longest completed path of its context: its length is
\* match_end - match_start + 1.
C4_OneRowPathIsLongest ==
    (outputMode = OUTPUT_ONE_ROW /\ ~pattern.reluctant)
        => \A e \in Emissions :
              /\ Len(emittedResults[e].paths) = 1
              /\ Len(emittedResults[e].paths[1])
                    = emittedResults[e].matchEnd - emittedResults[e].matchStart + 1

\* C5: under SKIP PAST_LAST two consecutive emissions never overlap: the later
\* one starts after the row the earlier one ends at.
C5_PastLastNoOverlap ==
    skipMode = SKIP_PAST_LAST
        => \A e \in Emissions :
              e + 1 \in Emissions
                  => emittedResults[e + 1].matchStart > emittedResults[e].matchEnd

\* two matches were emitted under PAST_LAST and an overlapping one was discarded
C5_Witness ==
    /\ skipMode = SKIP_PAST_LAST
    /\ Len(emittedResults) >= 2
    /\ \E r \in 1..Len(history) : Len(history[r].discarded) > 0

\* C6: emissions come out in strictly increasing match_start order in both
\* skip modes, whether emitted at once or through the queue.
C6_EmissionsInStartOrder ==
    \A e \in Emissions :
        e + 1 \in Emissions
            => emittedResults[e + 1].matchStart > emittedResults[e].matchStart

\* under TO_NEXT a queued context and another context have both been emitted
C6_Witness ==
    /\ skipMode = SKIP_TO_NEXT
    /\ Len(emittedResults) >= 2
    /\ \E r \in 1..Len(history) :
          /\ Len(history[r].queued) > 0
          /\ \E e \in Emissions :
                emittedResults[e].contextId = history[r].queued[1].contextId

\* the states recorded for an absorbed context or in a context snapshot, as
\* MatchState values (snapshot paths are variable names)
StatesOfAbsorbed(a) ==
    [k \in 1..Len(a.states) |->
        MatchState(a.states[k].elementIndex, a.states[k].counts,
                   <<Summary(a.states[k].matchedPaths)>>)]
StatesOfSnapshot(sn) ==
    [k \in 1..Len(sn.states) |->
        MatchState(sn.states[k].elementIndex, sn.states[k].counts,
                   <<Summary([q \in 1..Len(sn.states[k].matchedPaths) |->
                                [x \in 1..Len(sn.states[k].matchedPaths[q]) |->
                                    VarId(sn.states[k].matchedPaths[q][x])]])>>)]

\* both state lists are advanced over rows r..last of the run; whenever the
\* later list reaches a completion in a row, the earlier list does too
RECURSIVE CompletesWhenever(_, _, _, _)
CompletesWhenever(later, earlier, r, last) ==
    IF r > last \/ Len(later) = 0 THEN TRUE
    ELSE LET l == advanceStates(later, RowInput(r), 0)
             e == advanceStates(earlier, RowInput(r), 0)
         IN /\ Len(l.completedStates) > 0 => Len(e.completedStates) > 0
            /\ CompletesWhenever(l.states, e.states, r + 1, last)

\* C7: absorption is sound: after a later context has been absorbed by an
\* earlier one, in every following row in which the later context's states
\* would reach a completion the earlier context's states reach one too.
C7_AbsorptionSound ==
    \A r \in 1..Len(history) :
        \A a \in 1..Len(history[r].absorptions) :
            \A i \in 1..Len(history[r].contexts) :
                history[r].contexts[i].id = history[r].absorptions[a].byId
                    => CompletesWhenever(StatesOfAbsorbed(history[r].absorptions[a]),
                                         StatesOfSnapshot(history[r].contexts[i]),
                                         r, Len(history) - 1)

\* the completed paths (context id dropped) the history shows for a context
\* in the row it completed
SnapshotsOfCompleted(id) ==
    { sn \in UNION { Range(history[r].contexts) : r \in 1..Len(history) } :
        sn.id = id /\ sn.isCompleted }
PathsOfSnapshot(sn) == [j \in 1..Len(sn.completedPaths) |-> Tail(sn.completedPaths[j])]

\* C9: a ONE_ROW emission carries exactly one path, the first completed path
\* of its context; an ALL_ROWS emission carries every completed path of the
\* context, in order and each exactly once.
C9_OutputModePaths ==
    \A e \in Emissions :
        /\ SnapshotsOfCompleted(emittedResults[e].contextId) # {}
        /\ \A sn \in SnapshotsOfCompleted(emittedResults[e].contextId) :
              /\ outputMode = OUTPUT_ONE_ROW
                    => emittedResults[e].paths = <<PathsOfSnapshot(sn)[1]>>
              /\ outputMode = OUTPUT_ALL_ROWS
                    => /\ emittedResults[e].paths = PathsOfSnapshot(sn)
                       /\ \A a, b \in 1..Len(emittedResults[e].paths) :
                             a # b => emittedResults[e].paths[a] # emittedResults[e].paths[b]

\* a ONE_ROW emission of a context that has several completed paths
C9_Witness ==
    /\ outputMode = OUTPUT_ONE_ROW
    /\ \E e \in Emissions :
          \E sn \in SnapshotsOfCompleted(emittedResults[e].contextId) :
              /\ Len(sn.completedPaths) >= 2
              /\ emittedResults[e].paths = <<PathsOfSnapshot(sn)[1]>>

(***************************************************************************)
(* Reference semantics: pattern definition (lexical) order                  *)
(***************************************************************************)
\* rows of the run as sets of variable names
RowNames(r) == { pattern.variables[v + 1] : v \in RowInput(r) }

\* number of consecutive rows after position i in which the name is true
RECURSIVE RunLength(_, _, _)
RunLength(name, i, cap) ==
    IF cap = 0 \/ ~RowProcessed(i) \/ name \notin RowNames(i) THEN 0
    ELSE 1 + RunLength(name, i + 1, cap - 1)

\* The matches of a node starting at row i, as [end, path] records in the
\* order of preference the pattern text defines: arms of an alternation in
\* the order written, a greedy quantifier more repetitions first, a reluctant
\* one fewer first.
RECURSIVE PrefMatches(_, _)
RECURSIVE PrefSeq(_, _)
RECURSIVE PrefRepeat(_, _, _)
PrefMatches(node, i) ==
    CASE node.type = "VAR" ->
            LET most == RunLength(node.name, i, node.max)
                n == IF most >= node.min THEN most - node.min + 1 ELSE 0
            IN [j \in 1..n |->
                   LET k == IF node.reluctant THEN node.min + j - 1 ELSE most - j + 1
                   IN [end |-> i + k, path |-> [x \in 1..k |-> node.name]]]
      [] node.type = "SEQ" -> PrefSeq(node.items, <<[end |-> i, path |-> <<>>]>>)
      [] node.type = "ALT" ->
            ConcatAll([a \in 1..Len(node.alternatives) |->
                          PrefMatches(node.alternatives[a], i)])
      [] node.type = "GROUP" -> PrefRepeat(node, i, 0)
PrefSeq(items, partial) ==
    IF items = <<>> THEN partial
    ELSE PrefSeq(Tail(items),
            ConcatAll([q \in 1..Len(partial) |->
                LET rest == PrefMatches(Head(items), partial[q].end)
                IN [x \in 1..Len(rest) |->
                       [end |-> rest[x].end, path |-> partial[q].path \o rest[x].path]]]))
\* matches of the group from row i when k repetitions are already done
PrefRepeat(node, i, k) ==
    LET once == IF k < node.max THEN PrefMatches(node.content, i) ELSE <<>>
        again == ConcatAll([x \in 1..Len(once) |->
                    IF once[x].end = i /\ k >= node.min THEN <<>>
                    ELSE LET more == PrefRepeat(node, once[x].end, k + 1)
                         IN [y \in 1..Len(more) |->
                                [end |-> more[y].end, path |-> once[x].path \o more[y].path]]])
        exit == IF k >= node.min THEN <<[end |-> i, path |-> <<>>]>> ELSE <<>>
    IN IF node.reluctant THEN exit \o again ELSE again \o exit

\* position of the first occurrence of the path among the matches of the
\* pattern from row `start`, 0 when it is no such match
PrefIndex(path, start) ==
    LET all == PrefMatches(ast, start)
        hits == { x \in 1..Len(all) : all[x].path = path }
    IN IF hits = {} THEN 0 ELSE MinOf(hits)

\* C10: completed paths of equal length keep the pattern definition order:
\* the path through an earlier-written arm precedes the path through a later
\* arm, so the first (ONE_ROW) path of an emitted context is the earliest one.
C10_EqualLengthInDefinitionOrder ==
    \A e \in Emissions :
        \A sn \in SnapshotsOfCompleted(emittedResults[e].contextId) :
            \A a, b \in 1..Len(sn.completedPaths) :
                LET pa == PathsOfSnapshot(sn)[a]
                    pb == PathsOfSnapshot(sn)[b]
                IN (/\ a < b
                    /\ Len(pa) = Len(pb)
                    /\ PrefIndex(pa, sn.matchStart) > 0
                    /\ PrefIndex(pb, sn.matchStart) > 0)
                       => PrefIndex(pa, sn.matchStart) < PrefIndex(pb, sn.matchStart)

(***************************************************************************)
(* The life of a context as the history records it (h is a history index,   *)
(* the row processed there is row h - 1)                                    *)
(***************************************************************************)
SnapshotsAt(h, id) == { sn \in Range(history[h].contexts) : sn.id = id }

\* the context has live states after the row
AliveAt(h, id) == \E sn \in SnapshotsAt(h, id) : Len(sn.states) > 0

AbsorbedAt(h, id) ==
    \E a \in 1..Len(history[h].absorptions) : history[h].absorptions[a].absorbedId = id

\* completions (as paths of variable names) the context has reached up to
\* the row: those in completedPaths and those deferred as greedy candidates
DeferredAt(h, id) ==
    { toVarNames(d.matchedPaths[1]) :
        d \in { x \in Range(history[h].discardedStates) : x.contextId = id } }
RECURSIVE CompletionsUpTo(_, _)
CompletionsUpTo(h, id) ==
    IF h = 0 THEN {}
    ELSE CompletionsUpTo(h - 1, id)
           \cup DeferredAt(h, id)
           \cup UNION { Range(PathsOfSnapshot(sn)) : sn \in SnapshotsAt(h, id) }
NewCompletionAt(h, id) == CompletionsUpTo(h, id) # CompletionsUpTo(h - 1, id)

\* the last row before history index h in which the context reached a new completion
LastCompletionRow(h, id) ==
    MaxOf({ g \in 1..(h - 1) : NewCompletionAt(g, id) }) - 1

\* all live states of the context die in the row of history index h, the
\* context having reached a completion before and none in this row
DiesAfterCompletion(h, id) ==
    /\ h >= 2
    /\ AliveAt(h - 1, id)
    /\ ~AliveAt(h, id)
    /\ ~AbsorbedAt(h, id)
    /\ CompletionsUpTo(h - 1, id) # {}
    /\ ~NewCompletionAt(h, id)

ContextIds == 0..(ctxIdCounter - 1)

\* C8: a context that has reached a completion and whose live states then all
\* die without a new completion becomes completed, keeps the preserved
\* completion in its completed paths and carries as match end the row in
\* which that completion was reached; so does its emission.
C8_GreedyFallback ==
    \A h \in 1..Len(history) :
        \A id \in ContextIds :
            DiesAfterCompletion(h, id)
                => /\ \E sn \in SnapshotsAt(h, id) :
                         /\ sn.isCompleted
                         /\ Len(sn.completedPaths) > 0
                         /\ sn.matchEnd = LastCompletionRow(h, id)
                   /\ \A e \in Emissions :
                         emittedResults[e].contextId = id
                             => emittedResults[e].matchEnd = LastCompletionRow(h, id)

\* C11: executors share no state: whatever construction, processRow and reset
\* calls on a second executor are interleaved with the processRow calls of
\* the first, the first emits what it emits when it runs alone on the same
\* rows (context ids, match ranges and paths).
C11_ExecutorsShareNoState ==
    emittedResults = alone.emittedResults

C13_OutOfOrderRejected ==
    /\ Len(driverRows) = Len(history)
    /\ \A r \in 1..Len(history) :
          /\ history[r].row = r - 1
          /\ driverRows[r] = r - 1

\* the contexts the executor holds: the active ones and the queued completed ones
HeldContexts ==
    { contexts[i] : i \in 1..Len(contexts) }
      \cup { completedContexts[i] : i \in 1..Len(completedContexts) }

\* C14: after any processRow, no context holds two live states with the same
\* elementIndex and the same counts.
C14_StatesDeduplicated ==
    \A ctx \in HeldContexts :
        \A i, j \in 1..Len(ctx.states) :
            (/\ ctx.states[i].elementIndex = ctx.states[j].elementIndex
             /\ ctx.states[i].counts = ctx.states[j].counts) => i = j

\* a live state that is the merge of two states: it carries two paths
C14_Witness ==
    \E i \in 1..Len(contexts) :
        \E k \in 1..Len(contexts[i].states) :
            /\ Len(contexts[i].states) >= 2
            /\ Len(getMatchedPaths(contexts[i].states[k])) >= 2

NoRepetition(list) == \A i, j \in 1..Len(list) : list[i] = list[j] => i = j

\* C15: within any summary no two paths are equal, and within a context's
\* completedPaths no two paths are equal.
C15_PathsDeduplicated ==
    \A ctx \in HeldContexts :
        /\ NoRepetition(ctx.completedPaths)
        /\ \A k \in 1..Len(ctx.states) :
              \A m \in 1..Len(ctx.states[k].summaries) :
                  NoRepetition(ctx.states[k].summaries[m].paths)

\* a summary that holds two paths beside a context that holds two completed paths
C15_Witness ==
    /\ \E i \in 1..Len(contexts) :
          \E k \in 1..Len(contexts[i].states) :
              \E m \in 1..Len(contexts[i].states[k].summaries) :
                  Len(contexts[i].states[k].summaries[m].paths) >= 2
    /\ \E ctx \in HeldContexts : Len(ctx.completedPaths) >= 2

\* the variable A is true in every row processed so far
AInEveryRow == \A r \in 1..Len(history) : toVarIds({"A"}) \subseteq history[r].input

C17_NoAbsorptionUnderToNext ==
    skipMode = SKIP_TO_NEXT => \A r \in 1..Len(history) : history[r].absorptions = <<>>

\* C18: after any sequence of processRow calls, in both skip modes,
\* lastEmittedEnd is the largest matchEnd among the matches emitted so far, or
\* -1 if nothing has been emitted.
C18_LastEmittedEndIsLargest ==
    lastEmittedEnd = MaxOf({-1} \cup { emittedResults[e].matchEnd : e \in Emissions })

C20_ResetIsFresh ==
    previous # <<>>
        => /\ emittedResults = alone.emittedResults
           /\ history = alone.history
           /\ Executor = alone

\* an executor that processed two rows and an emission before the reset, and
\* two rows with an emission after it
C20_Witness ==
    /\ Len(previous) >= 2
    /\ \E r \in 1..Len(previous) : previous[r].emitted # <<>>
    /\ Len(history) >= 2
    /\ emittedResults # <<>>

\* C21: names of a row that are not in the pattern's variable table are
\* ignored: processRow leaves the same executor state, history and emissions
\* as processRow on the row with those names removed, so a row of foreign
\* names only behaves as an empty row.
C21_ForeignNamesIgnored ==
    /\ emittedResults = alone.emittedResults
    /\ Executor = alone

\* a run with a row of foreign names only, a row that mixes a foreign name
\* with a pattern variable, and an emission
C21_Witness ==
    /\ \E r \in 1..Len(rowNames) : rowNames[r] = ForeignNames
    /\ \E r \in 1..Len(rowNames) :
          /\ rowNames[r] \cap ForeignNames # {}
          /\ rowNames[r] \cap Range(pattern.variables) # {}
    /\ emittedResults # <<>>

\* C28: group ends and the finish never consume a row and a skip never
\* survives as a waiter: after processRow(r) every path held by a live state
\* of a context with matchStart s has length r - s + 1.
C28_LivePathsSpanTheRows ==
    \A i \in 1..Len(contexts) :
        \A k \in 1..Len(contexts[i].states) :
            \A path \in Range(getMatchedPaths(contexts[i].states[k])) :
                Len(path) = currentRow - contexts[i].matchStart + 1

\* the group-exit attempt of transitionAlt yields no successor: there is no
\* group end, or its min is not satisfied, or the transition from its next fails
ExitAttemptFails(state, elem, trueVars) ==
    LET endIdx == findGroupEnd(elem)
    IN \/ endIdx = -1
       \/ CountAt(state, Elem(endIdx).depth) < Elem(endIdx).min
       \/ transition(ExitState(state, Elem(endIdx)), trueVars) = <<>>

\* C29: when a wait state at an AltStart consumes a row, no arm yields a
\* successor and the group-exit attempt yields no successor either, the state
\* produces no successor at all.
C29_AltWithoutSuccessorDies ==
    \A i \in 1..Len(contexts) :
        \A k \in 1..Len(contexts[i].states) :
            \A trueVars \in SUBSET (0..(Len(pattern.variables) - 1)) :
                LET state == contexts[i].states[k]
                IN (/\ ~NoElem(state.elementIndex)
                    /\ isAltStart(Elem(state.elementIndex))
                    /\ transitionAltArms(state, Elem(state.elementIndex).next, trueVars) = <<>>
                    /\ ExitAttemptFails(state, Elem(state.elementIndex), trueVars))
                   => transitionAlt(state, Elem(state.elementIndex), trueVars) = <<>>

\* the group ends of the quantified groups that enclose element idx
EnclosingGroupEnds(idx) ==
    { g \in 0..(Len(pattern.elements) - 1) :
        isGroupEnd(Elem(g)) /\ Elem(g).jump <= idx /\ idx < g }

\* C30: the group end consulted for an AltStart is the group end of the
\* quantified group that encloses the alternation, and an alternation that no
\* quantified group encloses has none.
C30_GroupEndOfEnclosingGroup ==
    \A idx \in 0..(Len(pattern.elements) - 1) :
        isAltStart(Elem(idx))
            => findGroupEnd(Elem(idx)) =
                  (IF EnclosingGroupEnds(idx) = {} THEN -1 ELSE MinOf(EnclosingGroupEnds(idx)))

(***************************************************************************)
(* parser.js: pattern texts.  A text is a sequence of characters            *)
(***************************************************************************)
\* str[i]: the character at 0-based index i, undefined past the end
CharAt(str, i) == IF i >= 0 /\ i < Len(str) THEN str[i + 1] ELSE "undefined"
\* str.substring(from, to)
substring(str, from, to) == SubSeq(str, from + 1, to)

Whitespace == { " " }
Digits == { "0", "1", "2", "3", "4", "5", "6", "7", "8", "9" }
UpperLetters == { "A", "B", "C", "E", "M", "P", "R", "T", "U" }
LowerLetters == { "a", "b" }
\* /[A-Za-z]/ and /[A-Za-z0-9_]/
IsLetter(c) == c \in UpperLetters \cup LowerLetters
IsWordChar(c) == c \in UpperLetters \cup LowerLetters \cup Digits \cup { "_" }

DigitValue(c) ==
    CASE c = "0" -> 0 [] c = "1" -> 1 [] c = "2" -> 2 [] c = "3" -> 3 [] c = "4" -> 4
      [] c = "5" -> 5 [] c = "6" -> 6 [] c = "7" -> 7 [] c = "8" -> 8 [] c = "9" -> 9

toUpperCase(c) == CASE c = "a" -> "A" [] c = "b" -> "B" [] OTHER -> c

\* the characters of a text as one string
RECURSIVE StrOf(_)
StrOf(chars) == IF chars = <<>> THEN "" ELSE Head(chars) \o StrOf(Tail(chars))

\* String.prototype.trim
RECURSIVE trimStart(_)
trimStart(s) == IF s # <<>> /\ Head(s) \in Whitespace THEN trimStart(Tail(s)) ELSE s
RECURSIVE trimEnd(_)
trimEnd(s) ==
    IF s # <<>> /\ s[Len(s)] \in Whitespace THEN trimEnd(SubSeq(s, 1, Len(s) - 1)) ELSE s
trim(s) == trimEnd(trimStart(s))

\* String.prototype.split(','): the pieces between the separators
RECURSIVE split(_, _)
split(s, sep) ==
    IF \E k \in 1..Len(s) : s[k] = sep
    THEN <<SubSeq(s, 1, MinOf({ k \in 1..Len(s) : s[k] = sep }) - 1)>>
         \o split(SubSeq(s, MinOf({ k \in 1..Len(s) : s[k] = sep }) + 1, Len(s)), sep)
    ELSE <<s>>

\* parseInt(s): leading whitespace, an optional sign, then the longest run
\* of decimal digits; NaN if there is no digit.  A number is [nan, value]
NaN == [nan |-> TRUE, value |-> 0]
Number(value) == [nan |-> FALSE, value |-> value]
isNaN(x) == x.nan
RECURSIVE parseDigits(_, _, _)
parseDigits(s, seen, acc) ==
    IF s # <<>> /\ Head(s) \in Digits
    THEN parseDigits(Tail(s), TRUE, 10 * acc + DigitValue(Head(s)))
    ELSE IF seen THEN Number(acc) ELSE NaN
parseSigned(s) ==
    IF s # <<>> /\ Head(s) = "-"
    THEN [parseDigits(Tail(s), FALSE, 0) EXCEPT !.value = 0 - @]
    ELSE IF s # <<>> /\ Head(s) = "+" THEN parseDigits(Tail(s), FALSE, 0)
    ELSE parseDigits(s, FALSE, 0)
parseInt(s) == parseSigned(trimStart(s))

(***************************************************************************)
(* parser.js: tokenize.  The result is the token list, or the Error thrown  *)
(***************************************************************************)
Token(type, name, min, max, reluctant) ==
    [type |-> type, name |-> name, min |-> min, max |-> max, reluctant |-> reluctant]
PunctToken(type) == Token(type, <<>>, 1, 1, FALSE)
QuantToken(min, max, reluctant) == Token("QUANT", <<>>, min, max, reluctant)
\* a variable name read from a text is the sequence of its characters
VarToken(name) == Token("VAR", name, 1, 1, FALSE)

\* new Error(message): the message is kept as the pieces of its template
Thrown(message) == [tokens |-> <<>>, error |-> <<[message |-> message]>>]
Tokens(tokens) == [tokens |-> tokens, error |-> <<>>]
SyntaxErrorAt(i, text) == Thrown(<<"Syntax error", " at position ", ToString(i), ": ", text>>)
UnsupportedAt(i, text) ==
    Thrown(<<"Unsupported syntax", " at position ", ToString(i), ": ", text>>)
QuantifierErrorAt(i, range, text) ==
    Thrown(<<"Syntax error", " at position ", ToString(i), ": ",
             "Quantifier {" \o StrOf(range) \o "}", text>>)

\* the balance loop at the end of tokenize
RECURSIVE parenBalance(_, _, _)
parenBalance(tokens, k, parenCount) ==
    IF parenCount < 0
    THEN Thrown(<<"Syntax error", ": ", "Unmatched closing parenthesis )">>)
    ELSE IF k > Len(tokens)
    THEN IF parenCount > 0
         THEN Thrown(<<"Syntax error", ": ",
                       "Unclosed parenthesis (, " \o ToString(parenCount) \o " unmatched.">>)
         ELSE Tokens(tokens)
    ELSE parenBalance(tokens, k + 1,
                      parenCount + (IF tokens[k].type = "LPAREN" THEN 1
                                    ELSE IF tokens[k].type = "RPAREN" THEN -1 ELSE 0))

tokenizeFinal(tokens, lastToken) ==
    IF lastToken = "ALT"
    THEN Thrown(<<"Syntax error", ": ", "Pattern cannot end with |">>)
    ELSE parenBalance(tokens, 1, 0)

\* while (j < str.length && str[j] !== '}') j++
closingBrace(str, from) ==
    IF \E j \in from..(Len(str) - 1) : CharAt(str, j) = "}"
    THEN MinOf({ j \in from..(Len(str) - 1) : CharAt(str, j) = "}" })
    ELSE IF from > Len(str) THEN from ELSE Len(str)
\* while (j < str.length && /[A-Za-z0-9_]/.test(str[j])) j++
wordEnd(str, from) ==
    IF \E j \in from..(Len(str) - 1) : ~IsWordChar(CharAt(str, j))
    THEN MinOf({ j \in from..(Len(str) - 1) : ~IsWordChar(CharAt(str, j)) })
    ELSE Len(str)

\* min of {n}, {n,m}, {,m}
quantMin(parts) ==
    IF trim(parts[1]) = <<>> /\ Len(parts) > 1 THEN Number(0) ELSE parseInt(trim(parts[1]))
\* max of {n,m} with a second part that is not blank
quantMax(parts) == parseInt(trim(parts[2]))

RECURSIVE tokenizeFrom(_, _, _, _)
\* the quantifier {range} whose braces are at i and j, min and max parsed
tokenizeRange(str, i, j, range, parts, min, tokens) ==
    IF isNaN(min) THEN
        Thrown(<<"Syntax error", " at position ", ToString(i), ": ",
                 "Invalid quantifier {" \o StrOf(range) \o "}", ", expected number.">>)
    ELSE IF min.value < 0 THEN
        QuantifierErrorAt(i, range, " must have non-negative values.")
    ELSE IF Len(parts) > 1 /\ trim(parts[2]) # <<>> /\ isNaN(quantMax(parts)) THEN
        Thrown(<<"Syntax error", " at position ", ToString(i), ": ",
                 "Invalid quantifier {" \o StrOf(range) \o "}", ", expected number for max.">>)
    ELSE IF Len(parts) > 1 /\ trim(parts[2]) # <<>> /\ quantMax(parts).value < 0 THEN
        QuantifierErrorAt(i, range, " must have non-negative values.")
    ELSE IF Len(parts) > 1 /\ trim(parts[2]) # <<>> /\ quantMax(parts).value = 0 THEN
        QuantifierErrorAt(i, range, " max value must be greater than 0.")
    ELSE IF Len(parts) > 1 /\ trim(parts[2]) # <<>> /\ min.value > quantMax(parts).value THEN
        QuantifierErrorAt(i, range,
                          " min (" \o ToString(min.value) \o ") cannot exceed max ("
                             \o ToString(quantMax(parts).value) \o ").")
    ELSE IF Len(parts) = 1 /\ min.value = 0 THEN
        Thrown(<<"Syntax error", " at position ", ToString(i), ": ",
                 "Quantifier {0} is not allowed. Use * or ? instead.">>)
    ELSE tokenizeFrom(str,
                      IF CharAt(str, j + 1) = "?" THEN j + 2 ELSE j + 1,
                      Append(tokens,
                             QuantToken(min.value,
                                        IF Len(parts) = 1 THEN min.value
                                        ELSE IF trim(parts[2]) = <<>> THEN Infinity
                                        ELSE quantMax(parts).value,
                                        CharAt(str, j + 1) = "?")),
                      "QUANT")

\* c === '{' at index i
tokenizeBrace(str, i, j, tokens) ==
    IF CharAt(str, i + 1) = "-" THEN
        UnsupportedAt(i, "Exclusion {- -} is not supported. Use only basic quantifiers {n,m}.")
    ELSE IF j >= Len(str) THEN
        SyntaxErrorAt(i, "Unclosed quantifier {, missing }.")
    ELSE IF trim(substring(str, i + 1, j)) = <<>> THEN
        SyntaxErrorAt(i, "Empty quantifier {} is not allowed. Use *, +, ?, or {n,m}.")
    ELSE IF Len(split(substring(str, i + 1, j), ",")) > 2 THEN
        Thrown(<<"Syntax error", " at position ", ToString(i), ": ",
                 "Invalid quantifier {" \o StrOf(substring(str, i + 1, j)) \o "}",
                 ", expected {n} or {n,m} format.">>)
    ELSE tokenizeRange(str, i, j, substring(str, i + 1, j),
                       split(substring(str, i + 1, j), ","),
                       quantMin(split(substring(str, i + 1, j), ",")), tokens)

\* c is one of ? * + {
tokenizeQuant(str, i, c, tokens, lastToken) ==
    IF c = "?" /\ lastToken = "QUANT" THEN
        tokenizeFrom(str, i + 1, [tokens EXCEPT ![Len(tokens)].reluctant = TRUE], lastToken)
    ELSE IF lastToken # "VAR" /\ lastToken # "RPAREN" THEN
        Thrown(<<"Syntax error", " at position ", ToString(i), ": ",
                 "Quantifier " \o (IF c = "{" THEN "{n,m}" ELSE c),
                 " must follow a variable or group, not "
                    \o (IF lastToken = "null" THEN "start" ELSE lastToken) \o ".">>)
    ELSE IF c = "?" THEN
        tokenizeFrom(str, i + 1, Append(tokens, QuantToken(0, 1, FALSE)), "QUANT")
    ELSE IF c = "*" THEN
        tokenizeFrom(str, i + 1, Append(tokens, QuantToken(0, Infinity, FALSE)), "QUANT")
    ELSE IF c = "+" THEN
        tokenizeFrom(str, i + 1, Append(tokens, QuantToken(1, Infinity, FALSE)), "QUANT")
    ELSE tokenizeBrace(str, i, closingBrace(str, i + 1), tokens)

\* a variable name from index i up to index j
tokenizeWord(str, i, j, tokens) ==
    IF [k \in 1..(j - i) |-> toUpperCase(str[i + k])] = <<"P", "E", "R", "M", "U", "T", "E">>
    THEN UnsupportedAt(i, "PERMUTE is not supported.")
    ELSE tokenizeFrom(str, j, Append(tokens, VarToken(substring(str, i, j))), "VAR")

\* one turn of the while loop of tokenize
tokenizeFrom(str, i, tokens, lastToken) ==
    IF i >= Len(str) THEN tokenizeFinal(tokens, lastToken)
    ELSE IF CharAt(str, i) \in Whitespace THEN tokenizeFrom(str, i + 1, tokens, lastToken)
    ELSE IF CharAt(str, i) = "(" THEN
        tokenizeFrom(str, i + 1, Append(tokens, PunctToken("LPAREN")), "LPAREN")
    ELSE IF CharAt(str, i) = ")" THEN
        IF lastToken = "LPAREN" THEN SyntaxErrorAt(i, "Empty group () is not allowed.")
        ELSE IF lastToken = "ALT"
        THEN SyntaxErrorAt(i, "Empty alternation before ) is not allowed.")
        ELSE tokenizeFrom(str, i + 1, Append(tokens, PunctToken("RPAREN")), "RPAREN")
    ELSE IF CharAt(str, i) = "|" THEN
        IF lastToken = "null" THEN SyntaxErrorAt(i, "Pattern cannot start with |")
        ELSE IF lastToken = "ALT"
        THEN SyntaxErrorAt(i, "Empty alternation (consecutive ||) is not allowed.")
        ELSE IF lastToken = "LPAREN"
        THEN SyntaxErrorAt(i, "Alternation cannot immediately follow (")
        ELSE tokenizeFrom(str, i + 1, Append(tokens, PunctToken("ALT")), "ALT")
    ELSE IF CharAt(str, i) \in { "?", "*", "+", "{" } THEN
        tokenizeQuant(str, i, CharAt(str, i), tokens, lastToken)
    ELSE IF IsLetter(CharAt(str, i)) THEN tokenizeWord(str, i, wordEnd(str, i), tokens)
    ELSE IF CharAt(str, i) = "&" THEN
        UnsupportedAt(i, "AND operator (&) is not supported. Use DEFINE clause to combine conditions.")
    ELSE IF CharAt(str, i) \in { "^", "$" } THEN
        UnsupportedAt(i, "Anchors (^ $) are not supported.")
    ELSE Thrown(<<"Invalid character '" \o CharAt(str, i) \o "'", " at position ", ToString(i)>>)

tokenize(str) == tokenizeFrom(str, 0, <<>>, "null")

(***************************************************************************)
(* parser.js: extractQuantifier, parseItem, parseSequence, handleAlternation*)
(* pos is the object { value } the functions share; `thrown` holds the      *)
(* Error parseItem threw, after which nothing more is read.  The variables  *)
(* argument is filled and never read by parsePattern, and is left out       *)
(***************************************************************************)
Pos(value) == [value |-> value, thrown |-> <<>>]
Advance(pos) == [pos EXCEPT !.value = @ + 1]
HasToken(tokens, pos) == pos.value < Len(tokens)
TokenAt(tokens, pos) == tokens[pos.value + 1]
Parsed(node, pos) == [node |-> node, pos |-> pos]

extractQuantifier(tokens, pos) ==
    IF HasToken(tokens, pos) /\ TokenAt(tokens, pos).type = "QUANT"
    THEN [min |-> TokenAt(tokens, pos).min, max |-> TokenAt(tokens, pos).max,
          reluctant |-> TokenAt(tokens, pos).reluctant, pos |-> Advance(pos)]
    ELSE [min |-> 1, max |-> 1, reluctant |-> FALSE, pos |-> pos]

\* the GROUP node for a parsed content, from the token after the content on
groupOf(tokens, content, quant) ==
    Parsed(GroupNode(content, quant.min, quant.max, quant.reluctant), quant.pos)
closeGroup(tokens, group) ==
    groupOf(tokens, group.node,
            extractQuantifier(tokens,
                IF HasToken(tokens, group.pos) /\ TokenAt(tokens, group.pos).type = "RPAREN"
                THEN Advance(group.pos) ELSE group.pos))
varOf(token, quant) ==
    Parsed(VarNode(token.name, quant.min, quant.max, quant.reluctant), quant.pos)

RECURSIVE parseItem(_, _)
RECURSIVE parseSequenceLoop(_, _, _)
RECURSIVE handleAlternationLoop(_, _, _)
RECURSIVE parseAltItems(_, _, _)
RECURSIVE parseAltItemsNext(_, _, _)
RECURSIVE handleAlternationArm(_, _, _)
RECURSIVE parseSequenceNext(_, _, _)

parseSequence(tokens, pos) == parseSequenceLoop(tokens, pos, <<>>)

parseItem(tokens, pos) ==
    IF TokenAt(tokens, pos).type = "LPAREN"
    THEN closeGroup(tokens, parseSequence(tokens, Advance(pos)))
    ELSE IF TokenAt(tokens, pos).type = "VAR"
    THEN varOf(TokenAt(tokens, pos), extractQuantifier(tokens, Advance(pos)))
    ELSE Parsed(SeqNode(<<>>),
                [value |-> Len(tokens),
                 thrown |-> <<[message |->
                    <<"Internal error: Unexpected token type '"
                        \o TokenAt(tokens, pos).type \o "'",
                      " at position ", ToString(pos.value)>>]>>])

\* handleAlternation: the items of one alternative, up to ) or | or the end
parseAltItems(tokens, pos, altItems) ==
    IF ~HasToken(tokens, pos) \/ TokenAt(tokens, pos).type \in { "RPAREN", "ALT" }
    THEN [items |-> altItems, pos |-> pos]
    ELSE parseAltItemsNext(tokens, parseItem(tokens, pos), altItems)
parseAltItemsNext(tokens, item, altItems) ==
    parseAltItems(tokens, item.pos, Append(altItems, item.node))

\* handleAlternation: the outer while loop, alternatives collected so far
handleAlternationLoop(tokens, pos, alternatives) ==
    IF ~HasToken(tokens, pos) THEN Parsed(AltNode(alternatives), pos)
    ELSE handleAlternationArm(tokens, parseAltItems(tokens, pos, <<>>), alternatives)
handleAlternationArm(tokens, arm, alternatives) ==
    IF HasToken(tokens, arm.pos) /\ TokenAt(tokens, arm.pos).type = "ALT"
    THEN handleAlternationLoop(tokens, Advance(arm.pos),
                               Append(alternatives, SeqNode(arm.items)))
    ELSE Parsed(AltNode(Append(alternatives, SeqNode(arm.items))), arm.pos)

handleAlternation(tokens, pos, currentItems) ==
    handleAlternationLoop(tokens, Advance(pos), <<SeqNode(currentItems)>>)

parseSequenceLoop(tokens, pos, items) ==
    IF ~HasToken(tokens, pos) THEN Parsed(SeqNode(items), pos)
    ELSE IF TokenAt(tokens, pos).type = "RPAREN" THEN Parsed(SeqNode(items), pos)
    ELSE IF TokenAt(tokens, pos).type = "ALT" THEN handleAlternation(tokens, pos, items)
    ELSE parseSequenceNext(tokens, parseItem(tokens, pos), items)
parseSequenceNext(tokens, item, items) ==
    parseSequenceLoop(tokens, item.pos, Append(items, item.node))

(***************************************************************************)
(* parser.js: astEqual and the optimizer                                    *)
(***************************************************************************)
RECURSIVE astEqual(_, _)
astEqual(a, b) ==
    IF a.type # b.type THEN FALSE
    ELSE CASE a.type = "VAR" ->
                /\ a.min = b.min /\ a.max = b.max /\ a.reluctant = b.reluctant
                /\ a.name = b.name
           [] a.type = "GROUP" ->
                /\ a.min = b.min /\ a.max = b.max /\ a.reluctant = b.reluctant
                /\ astEqual(a.content, b.content)
           [] a.type = "SEQ" ->
                /\ Len(a.items) = Len(b.items)
                /\ \A i \in 1..Len(a.items) : astEqual(a.items[i], b.items[i])
           [] a.type = "ALT" ->
                /\ Len(a.alternatives) = Len(b.alternatives)
                /\ \A i \in 1..Len(a.alternatives) :
                      astEqual(a.alternatives[i], b.alternatives[i])

\* what one item of a SEQ contributes to newItems in unwrapGroups
unwrapItem(item) ==
    IF item.type = "GROUP" /\ item.min = 1 /\ item.max = 1
    THEN IF item.content.type = "SEQ" THEN item.content.items ELSE <<item.content>>
    ELSE IF item.type = "SEQ" THEN item.items
    ELSE <<item>>
\* what one alternative of an ALT contributes to newAlts in unwrapGroups
unwrapAlt(alt) == IF alt.type = "ALT" THEN alt.alternatives ELSE <<alt>>
\* a SEQ or ALT whose children are `children`, or the only child
singleOr(children, node) == IF Len(children) = 1 THEN children[1] ELSE node

RECURSIVE unwrapGroups(_)
unwrapGroupsSeq(items) ==
    singleOr(ConcatAll([i \in 1..Len(items) |-> unwrapItem(items[i])]),
             SeqNode(ConcatAll([i \in 1..Len(items) |-> unwrapItem(items[i])])))
unwrapGroupsAlt(alts) ==
    singleOr(ConcatAll([i \in 1..Len(alts) |-> unwrapAlt(alts[i])]),
             AltNode(ConcatAll([i \in 1..Len(alts) |-> unwrapAlt(alts[i])])))
unwrapGroups(node) ==
    CASE node.type = "SEQ" ->
            unwrapGroupsSeq([i \in 1..Len(node.items) |-> unwrapGroups(node.items[i])])
      [] node.type = "GROUP" ->
            IF node.min = 1 /\ node.max = 1 THEN unwrapGroups(node.content)
            ELSE [node EXCEPT !.content = unwrapGroups(node.content)]
      [] node.type = "ALT" ->
            unwrapGroupsAlt([i \in 1..Len(node.alternatives) |->
                                unwrapGroups(node.alternatives[i])])
      [] OTHER -> node

\* the `unique` list of removeDuplicates
RECURSIVE uniqueAlternatives(_, _)
uniqueAlternatives(alts, unique) ==
    IF alts = <<>> THEN unique
    ELSE uniqueAlternatives(Tail(alts),
            IF \E j \in 1..Len(unique) : astEqual(unique[j], Head(alts))
            THEN unique ELSE Append(unique, Head(alts)))

RECURSIVE removeDuplicates(_)
removeDuplicatesAlt(unique) == singleOr(unique, AltNode(unique))
removeDuplicates(node) ==
    CASE node.type = "SEQ" ->
            SeqNode([i \in 1..Len(node.items) |-> removeDuplicates(node.items[i])])
      [] node.type = "GROUP" -> [node EXCEPT !.content = removeDuplicates(node.content)]
      [] node.type = "ALT" ->
            removeDuplicatesAlt(uniqueAlternatives(
                [i \in 1..Len(node.alternatives) |-> removeDuplicates(node.alternatives[i])],
                <<>>))
      [] OTHER -> node

\* Infinity * n = Infinity for n > 0
Times(a, b) == IF a = Infinity \/ b = Infinity THEN Infinity ELSE a * b

IsPlainVar(item) == item.type = "VAR" /\ item.min = 1 /\ item.max = 1
\* the number of items from index i on that are the same {1,1} variable as items[i]
RECURSIVE sameVarRun(_, _, _)
sameVarRun(items, i, count) ==
    IF i + count <= Len(items) /\ IsPlainVar(items[i + count])
       /\ items[i + count].name = items[i].name
    THEN sameVarRun(items, i, count + 1)
    ELSE count
\* the while loop of optimizeQuantifiers over the items of a SEQ, from index i
RECURSIVE mergeConsecutive(_, _, _)
mergeConsecutive(items, i, newItems) ==
    IF i > Len(items) THEN newItems
    ELSE IF IsPlainVar(items[i]) /\ sameVarRun(items, i, 1) > 1
    THEN mergeConsecutive(items, i + sameVarRun(items, i, 1),
            Append(newItems,
                   VarNode(items[i].name, sameVarRun(items, i, 1),
                           sameVarRun(items, i, 1), items[i].reluctant)))
    ELSE mergeConsecutive(items, i + 1, Append(newItems, items[i]))

\* innerNode of optimizeQuantifiers, <<>> for null
innerNodeOf(content) ==
    IF content.type \in { "VAR", "GROUP" } THEN <<content>>
    ELSE IF content.type = "SEQ" /\ Len(content.items) = 1 THEN <<content.items[1]>>
    ELSE <<>>
\* a GROUP whose content has been optimized
fuseGroup(node, inner) ==
    IF inner # <<>> /\ inner[1].type \in { "VAR", "GROUP" }
       /\ (node.min = node.max \/ inner[1].min = inner[1].max)
    THEN IF inner[1].type = "VAR"
         THEN VarNode(inner[1].name, Times(inner[1].min, node.min),
                      Times(inner[1].max, node.max), inner[1].reluctant)
         ELSE GroupNode(inner[1].content, Times(inner[1].min, node.min),
                        Times(inner[1].max, node.max), inner[1].reluctant)
    ELSE node

RECURSIVE optimizeQuantifiers(_)
optimizeQuantifiersGroup(node) == fuseGroup(node, innerNodeOf(node.content))
optimizeQuantifiers(node) ==
    CASE node.type = "SEQ" ->
            SeqNode(mergeConsecutive(
                [i \in 1..Len(node.items) |-> optimizeQuantifiers(node.items[i])], 1, <<>>))
      [] node.type = "GROUP" ->
            optimizeQuantifiersGroup([node EXCEPT !.content = optimizeQuantifiers(node.content)])
      [] node.type = "ALT" ->
            AltNode([i \in 1..Len(node.alternatives) |->
                        optimizeQuantifiers(node.alternatives[i])])
      [] OTHER -> node

optimizeAST(node) == optimizeQuantifiers(removeDuplicates(unwrapGroups(node)))

(***************************************************************************)
(* parser.js: quantStr, astToString                                         *)
(***************************************************************************)
DigitChar(d) ==
    CASE d = 0 -> "0" [] d = 1 -> "1" [] d = 2 -> "2" [] d = 3 -> "3" [] d = 4 -> "4"
      [] d = 5 -> "5" [] d = 6 -> "6" [] d = 7 -> "7" [] d = 8 -> "8" [] d = 9 -> "9"
\* '' + n: the decimal digits of a non-negative number
RECURSIVE NumberChars(_)
NumberChars(n) ==
    IF n < 10 THEN <<DigitChar(n)>> ELSE Append(NumberChars(n \div 10), DigitChar(n % 10))

quantStr(min, max, reluctant) ==
    IF min = 1 /\ max = 1 THEN <<>>
    ELSE (IF min = 0 /\ max = 1 THEN <<"?">>
          ELSE IF min = 0 /\ max = Infinity THEN <<"*">>
          ELSE IF min = 1 /\ max = Infinity THEN <<"+">>
          ELSE IF min = max THEN <<"{">> \o NumberChars(min) \o <<"}">>
          ELSE IF max = Infinity THEN <<"{">> \o NumberChars(min) \o <<",", "}">>
          ELSE <<"{">> \o NumberChars(min) \o <<",">> \o NumberChars(max) \o <<"}">>)
         \o (IF reluctant THEN <<"?">> ELSE <<>>)

\* Array.prototype.join for texts
RECURSIVE joinTexts(_, _)
joinTexts(parts, sep) ==
    IF parts = <<>> THEN <<>>
    ELSE IF Len(parts) = 1 THEN parts[1]
    ELSE parts[1] \o sep \o joinTexts(Tail(parts), sep)

RECURSIVE astToString(_, _)
astToStringAlt(altStr, parentType) ==
    IF parentType = "SEQ" THEN <<"(", " ">> \o altStr \o <<" ", ")">> ELSE altStr
astToString(node, parentType) ==
    CASE node.type = "SEQ" ->
            joinTexts([i \in 1..Len(node.items) |-> astToString(node.items[i], "SEQ")],
                      <<" ">>)
      [] node.type = "VAR" -> node.name \o quantStr(node.min, node.max, node.reluctant)
      [] node.type = "GROUP" ->
            <<"(", " ">> \o astToString(node.content, "GROUP") \o <<" ", ")">>
                \o quantStr(node.min, node.max, node.reluctant)
      [] node.type = "ALT" ->
            astToStringAlt(
                joinTexts([i \in 1..Len(node.alternatives) |->
                              astToString(node.alternatives[i], "ALT")],
                          <<" ", "|", " ">>),
                parentType)
      [] OTHER -> <<>>

(***************************************************************************)
(* The variable sequences an AST accepts, up to a length                    *)
(***************************************************************************)
MaxWordLen == 4
\* the variable sequences of length up to MaxWordLen over the given names
WordsOver(names) == UNION { [1..n -> names] : n \in 0..MaxWordLen }
AcceptedWords(node, names) == { word \in WordsOver(names) : InLanguage(node, word) }

(***************************************************************************)
(* The parser functions applied to pattern texts                            *)
(***************************************************************************)
\* parseSequence(tokenize(str), { value: 0 }, []): the AST, or the Error thrown
ParseOutcome(error, asts) == [error |-> error, ast |-> asts]
parseTokens(parsed) ==
    IF parsed.pos.thrown # <<>> THEN ParseOutcome(parsed.pos.thrown, <<>>)
    ELSE ParseOutcome(<<>>, <<parsed.node>>)
parseText(str) ==
    IF tokenize(str).error # <<>> THEN ParseOutcome(tokenize(str).error, <<>>)
    ELSE parseTokens(parseSequence(tokenize(str).tokens, Pos(0)))

\* pattern texts: every text of up to MaxRawLen characters, the texts of a
\* small grammar of well-formed patterns, and some texts picked by hand
MaxRawLen == 3
RawAlphabet ==
    { "A", "(", ")", "|", "+", "?", "{", "}", "1", "0", ",", " ", "&", "-", "#" }
RawTexts == UNION { [1..n -> RawAlphabet] : n \in 0..MaxRawLen }

VarTexts == { <<"A">>, <<"B">> }
QuantTexts ==
    { <<>>, <<"+">>, <<"{", "2", "}">>, <<"{", "1", ",", "2", "}">>, <<"{", "1", "}", "?">> }
AtomTexts == { v \o q : v \in VarTexts, q \in QuantTexts }
PairTexts == { a \o sep \o b : a \in AtomTexts, sep \in { <<" ">>, <<"|">> }, b \in AtomTexts }
GroupTexts ==
    { <<"(">> \o t \o <<")">> \o q : t \in AtomTexts \cup PairTexts, q \in QuantTexts }
NestedTexts ==
    { g \o sep \o v : g \in GroupTexts, sep \in { <<" ">>, <<"|">> }, v \in VarTexts }
    \cup { <<"(">> \o g \o <<")">> \o q : g \in GroupTexts, q \in QuantTexts }
ExtraTexts ==
    { <<"P", "E", "R", "M", "U", "T", "E">>, <<"A", "{", "2", ",", "1", "}">>,
      <<"A", "{", ",", "2", "}">>, <<"A", "{", "-", "1", "}">>, <<"A", "{", "1", ",", "-", "1", "}">>,
      <<"A", "{", "1", ",", "0", "}">>, <<"A", "{", "1", ",", "2", ",", "3", "}">>,
      <<"A", "{", "1", ",", "#", "}">>, <<"A", "{", " ", "2", " ", ",", " ", "}", " ", "?">>,
      <<"a", "_", "1", " ", "A", " ", "|", " ", "A", "*", "?">>,
      <<"(", "A", " ", "B">>, <<"A", " ", "B", ")">>, <<"A", " ", "B", " ", "|">>,
      <<"(", "(", "A", "|", "B", ")", "|", "A", ")", "+">>,
      <<"A", "|", "A", "|", "B">>, <<"A", " ", "A", " ", "A">> }
PatternTexts == RawTexts \cup AtomTexts \cup PairTexts \cup GroupTexts \cup NestedTexts \cup ExtraTexts

NewParseRun(str) ==
    [stage |-> "text", str |-> str, error |-> <<>>, parsed |-> <<>>, once |-> <<>>,
     twice |-> <<>>, printed |-> <<>>, reparsed |-> <<>>, compiled |-> <<>>]

InitParser ==
    /\ InitExecutor({ AstPlusThen })
    /\ skipMode = SKIP_PAST_LAST
    /\ outputMode = OUTPUT_ONE_ROW
    /\ parseRun \in { NewParseRun(str) : str \in PatternTexts }

ParserUnchanged ==
    UNCHANGED <<ast, pattern, skipMode, outputMode, contexts, currentRow, completedContexts,
                emittedResults, lastEmittedEnd, ctxIdCounter, history, second, alone,
                previous, driverRows, seqRun, rowNames>>

\* the AST parsePattern compiles
astToCompile(parsedAst, optimize) == IF optimize THEN optimizeAST(parsedAst) ELSE parsedAst
\* parsePattern(str, options): a Pattern, or the Error thrown
parsePatternOf(run, outcome, optimize) ==
    IF outcome.error # <<>>
    THEN [run EXCEPT !.stage = "rejected", !.error = outcome.error]
    ELSE [run EXCEPT !.stage = "compiled", !.parsed = outcome.ast,
                     !.once = IF optimize THEN <<optimizeAST(outcome.ast[1])>> ELSE <<>>,
                     !.compiled = <<compileAST(astToCompile(outcome.ast[1], optimize))>>]
ParsePattern(optimize) ==
    /\ parseRun.stage = "text"
    /\ parseRun' = parsePatternOf(parseRun, parseText(parseRun.str), optimize)
    /\ ParserUnchanged

\* ast = parseSequence(tokenize(str), { value: 0 }, [])
parseSequenceOf(run, outcome) ==
    IF outcome.error # <<>>
    THEN [run EXCEPT !.stage = "rejected", !.error = outcome.error]
    ELSE [run EXCEPT !.stage = "parsed", !.parsed = outcome.ast]
ParseSequence ==
    /\ parseRun.stage = "text"
    /\ parseRun' = parseSequenceOf(parseRun, parseText(parseRun.str))
    /\ ParserUnchanged

\* ast = optimizeAST(ast), a first and a second time
OptimizeAST ==
    /\ \/ /\ parseRun.stage = "parsed"
          /\ parseRun' = [parseRun EXCEPT !.stage = "optimized",
                                          !.once = <<optimizeAST(parseRun.parsed[1])>>]
       \/ /\ parseRun.stage = "optimized"
          /\ parseRun.twice = <<>>
          /\ parseRun' = [parseRun EXCEPT !.twice = <<optimizeAST(parseRun.once[1])>>]
    /\ ParserUnchanged

\* astToString(ast)
AstToString ==
    /\ parseRun.stage = "parsed"
    /\ parseRun' = [parseRun EXCEPT !.stage = "printed",
                                    !.printed = <<astToString(parseRun.parsed[1], "null")>>]
    /\ ParserUnchanged

\* parseSequence(tokenize(printed), { value: 0 }, []) for the text astToString gave
Reparse ==
    /\ parseRun.stage = "printed"
    /\ parseRun' = [parseRun EXCEPT !.stage = "reparsed",
                                    !.reparsed = <<parseText(parseRun.printed[1])>>]
    /\ ParserUnchanged

NextParser ==
    \/ \E optimize \in BOOLEAN : ParsePattern(optimize)
    \/ ParseSequence
    \/ OptimizeAST
    \/ AstToString
    \/ Reparse

SpecParser == InitParser /\ [][NextParser]_vars

(***************************************************************************)
(* Properties of the parser functions                                       *)
(***************************************************************************)
\* the names of the variables of an AST
NamesOf(node) == Range(collectVariables(node, <<>>))

\* C22: each optimizer transformation preserves the pattern's semantics: the
\* optimized AST accepts exactly the variable sequences the parsed AST
\* accepts; quantifier fusion neither adds nor removes accepted sequences.
C22_OptimizerPreservesLanguage ==
    parseRun # <<>> /\ parseRun.once # <<>> =>
        AcceptedWords(parseRun.once[1], NamesOf(parseRun.parsed[1]))
            = AcceptedWords(parseRun.parsed[1], NamesOf(parseRun.parsed[1]))

\* C23: for every AST the parser produces, optimizeAST applied twice gives an
\* AST structurally equal to optimizeAST applied once.
C23_OptimizeIsIdempotent ==
    parseRun # <<>> /\ parseRun.twice # <<>> =>
        astEqual(parseRun.twice[1], parseRun.once[1])

\* C24: for every AST the parser produces, the text astToString returns
\* parses again, to an AST structurally equal to it (types, names, min, max
\* and reluctant flags).
C24_PrintedTextParsesBack ==
    parseRun # <<>> /\ parseRun.reparsed # <<>> =>
        /\ parseRun.reparsed[1].error = <<>>
        /\ astEqual(parseRun.reparsed[1].ast[1], parseRun.parsed[1])

\* the number of elements flattenAST emits for a node
RECURSIVE ElementCount(_)
RECURSIVE ElementCountAll(_)
ElementCount(node) ==
    CASE node.type = "VAR" -> 1
      [] node.type = "SEQ" -> ElementCountAll(node.items)
      [] node.type = "GROUP" ->
            ElementCount(node.content) + (IF node.min # 1 \/ node.max # 1 THEN 1 ELSE 0)
      [] node.type = "ALT" -> 1 + ElementCountAll(node.alternatives)
ElementCountAll(nodes) ==
    IF nodes = <<>> THEN 0 ELSE ElementCount(Head(nodes)) + ElementCountAll(Tail(nodes))

\* the alternations of an AST whose first element has index `at`: the index
\* of the AltStart, the first and last index of every arm in source order,
\* and the index after the whole alternation
RECURSIVE AltLayouts(_, _)
RECURSIVE AltLayoutsAll(_, _)
ArmStart(alts, at, i) == at + 1 + ElementCountAll(SubSeq(alts, 1, i - 1))
AltLayouts(node, at) ==
    CASE node.type = "VAR" -> {}
      [] node.type = "SEQ" -> AltLayoutsAll(node.items, at)
      [] node.type = "GROUP" -> AltLayouts(node.content, at)
      [] node.type = "ALT" ->
            { [alt |-> at,
               starts |-> [i \in 1..Len(node.alternatives) |->
                              ArmStart(node.alternatives, at, i)],
               ends |-> [i \in 1..Len(node.alternatives) |->
                            ArmStart(node.alternatives, at, i + 1) - 1],
               after |-> at + ElementCount(node)] }
            \cup AltLayoutsAll(node.alternatives, at + 1)
AltLayoutsAll(nodes, at) ==
    IF nodes = <<>> THEN {}
    ELSE AltLayouts(Head(nodes), at)
         \cup AltLayoutsAll(Tail(nodes), at + ElementCount(Head(nodes)))

\* the indexes met by following jump from idx until -1
RECURSIVE JumpChain(_, _, _)
JumpChain(elements, idx, fuel) ==
    IF idx < 0 \/ idx >= Len(elements) \/ fuel = 0 THEN <<>>
    ELSE <<idx>> \o JumpChain(elements, elements[idx + 1].jump, fuel - 1)

\* the AST that parsePattern compiled
CompiledAst == IF parseRun.once # <<>> THEN parseRun.once[1] ELSE parseRun.parsed[1]
CompiledElements == parseRun.compiled[1].elements

\* C25: for every alternation of a compiled Pattern the jump chain over the
\* arms' first elements visits the arms in source order and ends at -1, and
\* the last element of every arm has next pointing past the whole
\* alternation, never into a sibling arm.
C25_ArmsLinkPastTheAlternation ==
    parseRun # <<>> /\ parseRun.compiled # <<>> =>
        \A lay \in AltLayouts(CompiledAst, 0) :
            /\ JumpChain(CompiledElements, CompiledElements[lay.alt + 1].next,
                         Len(CompiledElements)) = lay.starts
            /\ \A i \in 1..Len(lay.ends) :
                  CompiledElements[lay.ends[i] + 1].next >= lay.after

\* following next from index idx reaches the element at index target
RECURSIVE NextReaches(_, _, _, _)
NextReaches(elements, idx, target, fuel) ==
    IF idx = target THEN TRUE
    ELSE IF idx < 0 \/ idx >= Len(elements) \/ fuel = 0 THEN FALSE
    ELSE NextReaches(elements, elements[idx + 1].next, target, fuel - 1)

ValidLink(elements, link) == link = -1 \/ (link >= 0 /\ link < Len(elements))

\* C26: in every compiled Pattern every next and jump is -1 or a valid
\* element index, the only element with next = -1 is the single Fin, which
\* is the last element, and following next from any element reaches it.
C26_LinkClosure ==
    parseRun # <<>> /\ parseRun.compiled # <<>> =>
        /\ \A i \in 1..Len(CompiledElements) :
              /\ ValidLink(CompiledElements, CompiledElements[i].next)
              /\ ValidLink(CompiledElements, CompiledElements[i].jump)
              /\ CompiledElements[i].next = -1 <=> i = Len(CompiledElements)
              /\ isFinish(CompiledElements[i]) <=> i = Len(CompiledElements)
              /\ NextReaches(CompiledElements, i - 1, Len(CompiledElements) - 1,
                             Len(CompiledElements))

\* a Pattern compiled from an optimized AST with an alternation inside a
\* quantified group that is followed by another element
C26_Witness ==
    /\ parseRun # <<>> /\ parseRun.compiled # <<>> /\ parseRun.once # <<>>
    /\ \E a, g, v \in 1..Len(CompiledElements) :
          /\ a < g /\ g < v
          /\ isAltStart(CompiledElements[a])
          /\ isGroupEnd(CompiledElements[g]) /\ CompiledElements[g].jump = a - 1
          /\ isVar(CompiledElements[v])

\* the message has the form "... at position <offset> ..." for an index of the text
CarriesOffset(message, str) ==
    \E k \in 1..(Len(message) - 1) :
        /\ message[k] = " at position "
        /\ message[k + 1] \in { ToString(i) : i \in 0..(Len(str) - 1) }

\* C27: every pattern text the tokenizer or parser rejects raises an error
\* that carries the 0-based character offset of the offending input and a
\* message naming the violated rule, and no Pattern is produced.
C27_RejectionCarriesOffset ==
    parseRun # <<>> /\ parseRun.stage = "rejected" =>
        /\ parseRun.error # <<>>
        /\ CarriesOffset(parseRun.error[1].message, parseRun.str)
        /\ parseRun.compiled = <<>>

(***************************************************************************)
(* Properties of the transitions                                            *)
(***************************************************************************)
\* the live states of all contexts
LiveStates == UNION { Range(contexts[i].states) : i \in 1..Len(contexts) }
\* the live states waiting at a variable element
LiveAtVar == { st \in LiveStates : ~NoElem(st.elementIndex) /\ isVar(Elem(st.elementIndex)) }
VarIdSets == SUBSET (0..(Len(pattern.variables) - 1))

\* the variable appended to every path and count c' at the element: the stay
StayAfterMatch(state, elem) ==
    [withMatch(state, elem.varId) EXCEPT !.counts[elem.depth + 1] = @ + 1]
\* the variable appended, the element left for next and its count reset
AdvanceAfterMatch(state, elem) ==
    [withMatch(state, elem.varId) EXCEPT !.counts[elem.depth + 1] = 0,
                                         !.elementIndex = elem.next]

SuccessorsAfterMatch(state, elem) ==
    IF CountAt(state, elem.depth) + 1 >= elem.max THEN <<AdvanceAfterMatch(state, elem)>>
    ELSE IF CountAt(state, elem.depth) + 1 >= elem.min
    THEN IF elem.reluctant
         THEN <<AdvanceAfterMatch(state, elem), StayAfterMatch(state, elem)>>
         ELSE <<StayAfterMatch(state, elem), AdvanceAfterMatch(state, elem)>>
    ELSE <<StayAfterMatch(state, elem)>>

\* C36: consuming a row at a Var whose variable is true, with c' = c + 1:
\* c' >= max gives the advance alone (next, count reset to 0); else c' >= min
\* gives a stay (count c') and an advance, stay first for a greedy element
\* and advance first for a reluctant one; else the stay alone.
C36_VarMatchSuccessors ==
    \A st \in LiveAtVar :
        \A trueVars \in VarIdSets :
            Elem(st.elementIndex).varId \in trueVars =>
                transition(st, trueVars) = SuccessorsAfterMatch(st, Elem(st.elementIndex))

\* a live state at a reluctant variable whose new count lies between min and
\* max, beside a live state at a variable that reaches its max
C36_Witness ==
    /\ \E st \in LiveAtVar :
          /\ Elem(st.elementIndex).reluctant
          /\ CountAt(st, Elem(st.elementIndex).depth) + 1 >= Elem(st.elementIndex).min
          /\ CountAt(st, Elem(st.elementIndex).depth) + 1 < Elem(st.elementIndex).max
    /\ \E st \in LiveAtVar :
          CountAt(st, Elem(st.elementIndex).depth) + 1 >= Elem(st.elementIndex).max
    /\ currentRow >= 1

(***************************************************************************)
(* Streams over patterns with quantified groups, greedy and reluctant       *)
(***************************************************************************)
MaxRowsGroup == 4
\* ( A B ){1,3}?
AstGroupReluctant == SeqNode(<<GroupNode(SeqNode(<<V("A"), V("B")>>), 1, 3, TRUE)>>)
\* ( A B ){2,3} C
AstGroupMin == SeqNode(<<GroupNode(SeqNode(<<V("A"), V("B")>>), 2, 3, FALSE), V("C")>>)
\* ( ( A ){1,2} B )+?
AstGroupNested ==
    SeqNode(<<GroupNode(SeqNode(<<GroupNode(SeqNode(<<V("A")>>), 1, 2, FALSE), V("B")>>),
                        1, Infinity, TRUE)>>)
AstsGroup == { AstBounded, AstGroupReluctant, AstGroupMin, AstGroupNested }

InitGroup == InitWith(AstsGroup)
ProcessRowGroup(trueVarNames) == ProcessRowUpTo(MaxRowsGroup, trueVarNames)
NextGroup == \E trueVarNames \in Rows : ProcessRowGroup(trueVarNames)
SpecGroup == InitGroup /\ [][NextGroup]_vars

\* the states met while the live states consume a row and the results are
\* expanded: the results of transition, closed under the queue pushes
RECURSIVE ExpansionClosure(_, _)
ExpansionClosure(states, fuel) ==
    IF fuel = 0 THEN states
    ELSE ExpansionClosure(states \cup UNION { Range(expandSuccessors(st)) : st \in states },
                          fuel - 1)
StatesMet ==
    ExpansionClosure(
        {InitialState}
        \cup UNION { Range(transition(st, trueVars)) : st \in LiveStates, trueVars \in VarIdSets },
        Len(pattern.elements))
MetAtGroupEnd ==
    { st \in StatesMet : ~NoElem(st.elementIndex) /\ isGroupEnd(Elem(st.elementIndex)) }

\* the successor at jump: counts[depth] = c', all deeper counts 0
RepeatAtGroupEnd(state, elem) ==
    [state EXCEPT !.elementIndex = elem.jump,
                  !.counts = [d \in 1..Len(state.counts) |->
                                 IF d - 1 = elem.depth THEN state.counts[d] + 1
                                 ELSE IF d - 1 > elem.depth THEN 0
                                 ELSE state.counts[d]]]
\* the successor at next: counts[depth] = 0
ExitAtGroupEnd(state, elem) ==
    [state EXCEPT !.elementIndex = elem.next, !.counts[elem.depth + 1] = 0]

SuccessorsAtGroupEnd(state, elem) ==
    IF CountAt(state, elem.depth) + 1 < elem.min THEN <<RepeatAtGroupEnd(state, elem)>>
    ELSE IF CountAt(state, elem.depth) + 1 >= elem.max THEN <<ExitAtGroupEnd(state, elem)>>
    ELSE IF elem.reluctant
    THEN <<ExitAtGroupEnd(state, elem), RepeatAtGroupEnd(state, elem)>>
    ELSE <<RepeatAtGroupEnd(state, elem), ExitAtGroupEnd(state, elem)>>

AtFinish(st) == st.elementIndex = -1 \/ NoElem(st.elementIndex) \/ isFinish(Elem(st.elementIndex))

\* the paths with which some branch reaches the finish when the states of a
\* context consume a row: the results of consumption, followed through the
\* epsilon moves of the expansion
CompletionsReached(ctx, trueVars) ==
    UNION { Range(getMatchedPaths(st)) :
              st \in { r \in ExpansionClosure(
                                Range(consumeInput(ctx.states, trueVars, ctx.id).activeStates)
                                \cup Range(consumeInput(ctx.states, trueVars, ctx.id).completedStates),
                                2 * Len(pattern.elements)) : AtFinish(r) } }

\* the paths of the completed states the step ends with
CompletionsKept(ctx, trueVars) ==
    Range(allMatchedPaths(advanceStates(ctx.states, trueVars, ctx.id).completedStates))

\* C31: deduplication never loses a path: a state that collides with an
\* earlier state of the same elementIndex and counts has its paths merged
\* into the state that is returned, also at Fin, so every completion reached
\* by any branch in a step is among that step's completed paths.
C31_DeduplicationKeepsPaths ==
    \A i \in 1..Len(contexts) :
        \A trueVars \in VarIdSets :
            trueVars # {} =>
                CompletionsReached(contexts[i], trueVars)
                    \subseteq CompletionsKept(contexts[i], trueVars)

(***************************************************************************)
(* Groups whose body can match the empty sequence                           *)
(***************************************************************************)
MaxRowsEmptyBody == 4

\* ( A* )*
AstStarStar == SeqNode(<<GroupNode(SeqNode(<<VarNode("A", 0, Infinity, FALSE)>>), 0, Infinity, FALSE)>>)
\* ( A? )+
AstOptPlus == SeqNode(<<GroupNode(SeqNode(<<VarNode("A", 0, 1, FALSE)>>), 1, Infinity, FALSE)>>)
\* ( A+ )* B
AstPlusStar == SeqNode(<<GroupNode(SeqNode(<<Plus("A")>>), 0, Infinity, FALSE), V("B")>>)
\* ( A? ){1,2} B
AstOptBounded == SeqNode(<<GroupNode(SeqNode(<<VarNode("A", 0, 1, FALSE)>>), 1, 2, FALSE), V("B")>>)
\* ( A? B )+
AstOptThenPlus == SeqNode(<<GroupNode(SeqNode(<<VarNode("A", 0, 1, FALSE), V("B")>>), 1, Infinity, FALSE)>>)

AstsEmptyBody == { AstStarStar, AstOptPlus, AstPlusStar, AstOptBounded, AstOptThenPlus }

\* the queue of the while loop of expandToWaitPositions after `fuel` passes:
\* empty when the loop has ended by then
RECURSIVE expandQueueAfter(_, _, _)
expandQueueAfter(queue, seen, fuel) ==
    IF queue = <<>> \/ fuel = 0 THEN queue
    ELSE IF HashIndex(seen, hash(Head(queue))) > 0
         THEN expandQueueAfter(Tail(queue), seen, fuel - 1)
         ELSE expandQueueAfter(Tail(queue) \o expandSuccessors(Head(queue)),
                               Append(seen, Head(queue)), fuel - 1)

\* bound on the passes of the loop that are followed
MaxExpandSteps == 50

\* the loop of expandToWaitPositions(states) ends within MaxExpandSteps passes
ExpansionEnds(states) == expandQueueAfter(states, <<>>, MaxExpandSteps) = <<>>

\* the expansions a call of processRow(trueVars) runs: the one of the initial
\* state in tryStartNewContext and, per context, the one of the consumed states
RowExpansionsEnd(trueVars) ==
    /\ ExpansionEnds(<<InitialState>>)
    /\ \A i \in 1..Len(contexts) :
          ExpansionEnds(consumeInput(contexts[i].states, trueVars, contexts[i].id).activeStates)

InitEmptyBody == InitWith(AstsEmptyBody)

\* executor.processRow(trueVarNames); a call whose expansion does not end
\* never returns and has no state after it
ProcessRowEmptyBody(trueVarNames) ==
    /\ RowExpansionsEnd(toVarIds(trueVarNames))
    /\ ProcessRowUpTo(MaxRowsEmptyBody, trueVarNames)

NextEmptyBody == \E trueVarNames \in Rows : ProcessRowEmptyBody(trueVarNames)

SpecEmptyBody == InitEmptyBody /\ [][NextEmptyBody]_vars

\* C32: processRow always terminates: for every compiled pattern, also one with
\* an unbounded group whose body can match empty, every expansion of a call
\* visits finitely many distinct states and its queue runs empty.
C32_ExpansionTerminates == \A trueVars \in VarIdSets : RowExpansionsEnd(trueVars)

(***************************************************************************)
(* Greedy deferral of completions                                           *)
(***************************************************************************)
\* the step yields completions (paths) while live states remain that can
\* consume the variables of the row
YieldsWhileLive(paths, live, trueVars) ==
    /\ paths # <<>>
    /\ canProgressFurther(live, trueVars)

\* the longest path, the earliest one on ties
LongestEarliest(paths) ==
    paths[CHOOSE i \in 1..Len(paths) :
            /\ \A j \in 1..Len(paths) : Len(paths[j]) <= Len(paths[i])
            /\ \A j \in 1..(i - 1) : Len(paths[j]) < Len(paths[i])]

FallbackAfter(ctx, paths) ==
    IF ctx._greedyFallback = NoFallback
       \/ Len(LongestEarliest(paths)) > Len(ctx._greedyFallback[1])
    THEN <<LongestEarliest(paths)>>
    ELSE ctx._greedyFallback

Occurrences(seq, x) == Cardinality({ k \in 1..Len(seq) : seq[k] = x })

\* ctx before the step, after the step, the completions of the step
DefersOrFinalizes(ctx, after, paths, trueVars) ==
    IF YieldsWhileLive(paths, after.states, trueVars)
    THEN /\ after.completedPaths = ctx.completedPaths
         /\ after._greedyFallback = FallbackAfter(ctx, paths)
    ELSE /\ after._greedyFallback = NoFallback
         /\ ctx._greedyFallback # NoFallback =>
               Occurrences(after.completedPaths, <<ctx.id>> \o ctx._greedyFallback[1]) = 1

\* one step of an existing context: adv is what its states yield on the row
StepDefersOrFinalizes(ctx, adv, trueVars) ==
    DefersOrFinalizes(ctx, advancedContext(ctx, adv, trueVars).ctx,
                      allMatchedPaths(adv.completedStates), trueVars)

ReplacesFallback(ctx, adv, trueVars) ==
    /\ YieldsWhileLive(allMatchedPaths(adv.completedStates), adv.states, trueVars)
    /\ FallbackAfter(ctx, allMatchedPaths(adv.completedStates)) # ctx._greedyFallback

\* the step of ctx yields completions and finalizes
FinalizesWithCompletions(adv, trueVars) ==
    /\ adv.completedStates # <<>>
    /\ ~YieldsWhileLive(allMatchedPaths(adv.completedStates), adv.states, trueVars)

MaxRowsSkip == 4

\* ( A | A )+ B? C
AstAltThenOpt ==
    SeqNode(<<GroupNode(AltNode(<<SeqNode(<<V("A")>>), SeqNode(<<V("A")>>)>>), 1, Infinity, FALSE),
              VarNode("B", 0, 1, FALSE), V("C")>>)
\* A B+ C*
AstThenStar == SeqNode(<<V("A"), Plus("B"), VarNode("C", 0, Infinity, FALSE)>>)
\* A B? C
AstOptBetween == SeqNode(<<V("A"), VarNode("B", 0, 1, FALSE), V("C")>>)

\* ( A B B | A C )
AstTwoArms ==
    SeqNode(<<GroupNode(AltNode(<<SeqNode(<<V("A"), V("B"), V("B")>>),
                                  SeqNode(<<V("A"), V("C")>>)>>), 1, 1, FALSE)>>)

AstsSkip == { AstAltThenOpt, AstThenStar, AstOptBetween, AstThenPlus, AstTwoArms }

InitSkip == InitWith(AstsSkip)

ProcessRowSkip(trueVarNames) == ProcessRowUpTo(MaxRowsSkip, trueVarNames)

NextSkip == \E trueVarNames \in Rows : ProcessRowSkip(trueVarNames)

SpecSkip == InitSkip /\ [][NextSkip]_vars

\* the contexts shown after row r that existed before it
ExistedBefore(r) == { sn \in Range(history[r + 1].contexts) : sn.matchStart < r }

EndedAt(sn) ==
    /\ Len(sn.states) = 0
    /\ sn.isCompleted <=> Len(sn.completedPaths) > 0
    /\ sn.isDead <=> Len(sn.completedPaths) = 0

\* C34: after processRow on a row in which no pattern variable is true, no
\* context that existed before that row still has live states: each of them
\* is completed if it has a completed path and dead otherwise.
C34_EmptyRowEndsAttempts ==
    \A r \in 0..currentRow :
        RowInput(r) = {} =>
            /\ \A sn \in ExistedBefore(r) : EndedAt(sn)
            /\ r = currentRow => \A i \in 1..Len(contexts) : contexts[i].matchStart = r

(***************************************************************************)
(* Emission beside contexts that died                                       *)
(***************************************************************************)
\* a context with a smaller match_start is still live after the call
EarlierLive(start) == \E i \in 1..Len(contexts) : contexts[i].matchStart < start

\* the contexts the last call emitted or discarded
SettledInLastCall ==
    { history[Len(history)].emitted[k].contextId : k \in 1..Len(history[Len(history)].emitted) }
    \cup { history[Len(history)].discarded[k].contextId :
             k \in 1..Len(history[Len(history)].discarded) }

\* the contexts that are completed at the end of the last call
CompletedInLastCall ==
    { sn \in Range(history[Len(history)].contexts) : sn.isCompleted }

\* C35: a dead context never delays emission: under PAST_LAST a context that is
\* completed at the end of a processRow call, with no context of smaller
\* match_start still live, is emitted or discarded in that call (a context
\* that died in the call does not count as live), and no completed context
\* waits in the queue after a call in which nothing earlier remains alive.
C35_DeadContextDelaysNothing ==
    skipMode = SKIP_PAST_LAST /\ currentRow >= 0 =>
        /\ \A sn \in CompletedInLastCall :
              ~EarlierLive(sn.matchStart) => sn.id \in SettledInLastCall
        /\ \A k \in 1..Len(completedContexts) : EarlierLive(completedContexts[k].matchStart)

(***************************************************************************)
(* match_end and is_completed of the contexts                               *)
(***************************************************************************)
\* the contexts the executor holds after a call: live ones and queued ones
ContextsHeld == Range(contexts) \cup Range(completedContexts)

\* length of the longest completed path, without the context id in front
LongestCompleted(paths) ==
    CHOOSE n \in { Len(paths[k]) - 1 : k \in 1..Len(paths) } :
        \A k \in 1..Len(paths) : Len(paths[k]) - 1 <= n

MatchEndOfPaths(c) ==
    IF Len(c.completedPaths) = 0 THEN -1
    ELSE c.matchStart + LongestCompleted(c.completedPaths) - 1

\* the contexts shown after row r (r = history index - 1)
ShownAfter(r) == Range(history[r + 1].contexts)

\* C38: after every processRow the match_end of each context is match_start +
\* (length of its longest completed path) - 1, or -1 if it has no completed
\* path; so match_start <= match_end <= current row whenever match_end >= 0,
\* and a completion on the creation row r gives match_end = r.
C38_MatchEndFromLongestPath ==
    /\ \A c \in ContextsHeld :
          /\ c.matchEnd = MatchEndOfPaths(c)
          /\ c.matchEnd >= 0 => c.matchStart <= c.matchEnd /\ c.matchEnd <= currentRow
    /\ \A r \in 0..currentRow :
          \A sn \in ShownAfter(r) :
              /\ sn.matchEnd = MatchEndOfPaths(sn)
              /\ sn.matchEnd >= 0 => sn.matchStart <= sn.matchEnd /\ sn.matchEnd <= r
              /\ sn.matchStart = r /\ Len(sn.completedPaths) > 0 => sn.matchEnd = r

\* a context completed on its creation row, a context that holds completed
\* paths of different lengths, and a live context without completed path
C38_Witness ==
    /\ \E r \in 0..currentRow : \E sn \in ShownAfter(r) :
          sn.matchStart = r /\ Len(sn.completedPaths) > 0
    /\ \E r \in 0..currentRow : \E sn \in ShownAfter(r) :
          /\ sn.matchEnd > sn.matchStart
          /\ \E k \in 1..Len(sn.completedPaths) :
                Len(sn.completedPaths[k]) - 1 < LongestCompleted(sn.completedPaths)
    /\ \E c \in Range(contexts) : Len(c.completedPaths) = 0

\* the contexts the calls so far have emitted
EmittedIds == { emittedResults[k].contextId : k \in 1..Len(emittedResults) }

\* the contexts row r's call emitted
EmittedAt(r) == { history[r + 1].emitted[k].contextId : k \in 1..Len(history[r + 1].emitted) }

\* C39: a context is marked is_completed exactly when it has no live states
\* and at least one completed path; a context with no live states and no
\* completed path is dead and is removed without emission; a context that
\* still has live states is never marked completed and never emitted, even if
\* it holds completed paths.
C39_CompletedIffEndedWithPath ==
    /\ \A c \in ContextsHeld :
          c.isCompleted <=> (Len(c.states) = 0 /\ Len(c.completedPaths) > 0)
    /\ \A c \in Range(contexts) : c.id \notin EmittedIds
    /\ \A r \in 0..currentRow :
          \A sn \in ShownAfter(r) :
              /\ sn.isCompleted <=> (Len(sn.states) = 0 /\ Len(sn.completedPaths) > 0)
              /\ Len(sn.states) > 0 => sn.id \notin EmittedAt(r)
              /\ Len(sn.states) = 0 /\ Len(sn.completedPaths) = 0 =>
                    /\ sn.isDead
                    /\ sn.id \notin EmittedIds
                    /\ \A c \in ContextsHeld : c.id # sn.id

\* a live context that holds completed paths (a potential match), after a
\* call that showed a dead context and a call that emitted a completed one
C39_Witness ==
    /\ \E c \in Range(contexts) : Len(c.completedPaths) > 0
    /\ \E r \in 0..currentRow : \E sn \in ShownAfter(r) : sn.isDead
    /\ \E r \in 0..currentRow : \E sn \in ShownAfter(r) : sn.isCompleted /\ sn.id \in EmittedAt(r)

(***************************************************************************)
(* Two executors, a pattern that completes within one row                   *)
(***************************************************************************)
\* A
AstSingle == SeqNode(<<V("A")>>)

AstsTwoShort == { AstSingle }

InitTwoShort == InitWith(AstsTwoShort)

SpecTwoShort == InitTwoShort /\ [][NextTwo]_vars

\* the contexts the calls so far have discarded
DiscardedIds ==
    UNION { { history[h].discarded[k].contextId : k \in 1..Len(history[h].discarded) } :
            h \in 1..Len(history) }

\* C40: no context is emitted more than once and none is both emitted and
\* discarded: over the processRow calls on one executor the context ids in
\* the emitted results are pairwise distinct, and a context that was emitted
\* or discarded is neither in the live context list nor in the completed queue.
C40_EmittedOnce ==
    /\ \A j \in Emissions : \A k \in Emissions :
          j # k => emittedResults[j].contextId # emittedResults[k].contextId
    /\ EmittedIds \cap DiscardedIds = {}
    /\ \A c \in ContextsHeld : c.id \notin (EmittedIds \cup DiscardedIds)

====
